---- MODULE Spec2Model ----
(***************************************************************************)
(* A model of the server of the chat / study-tools application:            *)
(*   - MemStorage (src/server/storage.ts): nine insertion-ordered Maps;    *)
(*   - the HTTP handlers and the WebSocket chat relay of registerRoutes    *)
(*     (src/unnamed/part_000).                                             *)
(*                                                                         *)
(* Encoding of JavaScript values:                                          *)
(*   - identifiers and instants are integers; the n-th value returned by   *)
(*     randomUUID() is the integer n (a version-4 UUID is modelled as a    *)
(*     value that was never returned before), "default-user" is 0;         *)
(*   - null is the integer Null (-1), which is no identifier or instant;   *)
(*   - undefined is the record Undefined;                                  *)
(*   - a Map is the sequence of its entries [key, val] in insertion order  *)
(*     (a JavaScript Map iterates in insertion order, and set() on a       *)
(*     present key keeps the entry's position).                            *)
(***************************************************************************)
EXTENDS Integers, Sequences, FiniteSets, TLC

\* ------------------------------------------------------------------ bounds
\* randomUUID() is called at most MaxIds times.
MaxIds == 2
\* The clock (new Date()) takes the values 0..MaxTime.
MaxTime == 1

\* The chat relay serves the connections 1..MaxConns and receives at most
\* MaxFrames frames in all.
MaxConns == 1
MaxFrames == 2
\* A quiz has at most MaxQuestions questions, an answer array as many entries.
MaxQuestions == 3
\* The client's hook constructs at most MaxSockets WebSocket objects.
MaxSockets == 3

Conns == 1..MaxConns

\* ------------------------------------------------------------ JS encoding
Null == -1
Undefined == [undefined |-> TRUE]
\* const DEFAULT_USER_ID = "default-user"; also the id of the seeded user.
DEFAULT_USER_ID == 0
\* An id randomUUID never returns, and a user id other than the demo user's.
NoSuchId == -2
OtherUserId == -3
\* An instant supplied by a caller in an update payload.
PayloadInstant == MaxTime + 5

UserIds == {DEFAULT_USER_ID, OtherUserId}

VARIABLES
    storage,    \* the MemStorage singleton: one Map per entity type
    now,        \* the value new Date() returns
    nextId,     \* the number of randomUUID() calls so far, plus one
    assigned,   \* history: the type and identifier of every record created
    ret,        \* the last operation and what it returned or threw
    sockets,    \* the server's WebSocket of each connection: "none", "open", "closed"
    calls,      \* the provider calls dispatched by the relay and not yet settled
    trace,      \* history: what the relay did for each frame, in order
    timers,     \* the pending setTimeout callbacks: the video each will complete
    hook,       \* the state of the client's useWebSocket hook
    chat        \* the state of the client's ChatInterface and of its ChatInput

wsVars == << sockets, calls, trace >>
vars == << storage, now, nextId, assigned, ret, sockets, calls, trace, timers, hook, chat >>

EntityTypes == { "users", "conversations", "messages", "flashcardSets", "flashcards",
                 "notes", "quizzes", "quizAttempts", "videoGenerations" }

\* ------------------------------------------------------------- Map, spread
MapKeys(m) == { m[i].key : i \in 1..Len(m) }
MapHas(m, k) == \E i \in 1..Len(m) : m[i].key = k
MapGet(m, k) ==
    IF MapHas(m, k) THEN (CHOOSE e \in { m[i] : i \in 1..Len(m) } : e.key = k).val
    ELSE Undefined
MapSet(m, k, v) ==
    IF MapHas(m, k)
    THEN [ i \in 1..Len(m) |-> IF m[i].key = k THEN [key |-> k, val |-> v] ELSE m[i] ]
    ELSE Append(m, [key |-> k, val |-> v])
MapDelete(m, k) == SelectSeq(m, LAMBDA e : e.key # k)
MapValues(m) == [ i \in 1..Len(m) |-> m[i].val ]

\* { ...a, ...b }: the fields of b override those of a.
Spread(a, b) ==
    [ f \in (DOMAIN a) \cup (DOMAIN b) |-> IF f \in DOMAIN b THEN b[f] ELSE a[f] ]

\* Array.prototype.sort with the comparator (a, b) => k(b) - k(a): descending by
\* key, and stable (elements with equal keys keep their order).  k is the
\* sequence of the elements' keys.
RECURSIVE PickOrder(_, _)
PickOrder(k, rem) ==
    IF rem = {} THEN << >>
    ELSE LET best == CHOOSE i \in rem :
                        \A j \in rem : k[i] > k[j] \/ (k[i] = k[j] /\ i <= j)
         IN  << best >> \o PickOrder(k, rem \ {best})
\* A sort that is not stable: elements with equal keys come out reversed.
RECURSIVE PickOrderLast(_, _)
PickOrderLast(k, rem) ==
    IF rem = {} THEN << >>
    ELSE LET best == CHOOSE i \in rem :
                        \A j \in rem : k[i] > k[j] \/ (k[i] = k[j] /\ i >= j)
         IN  << best >> \o PickOrderLast(k, rem \ {best})
UnstableSortDesc(s, k) ==
    LET ord == PickOrderLast(k, 1..Len(s)) IN [ n \in 1..Len(s) |-> s[ord[n]] ]
StableSortDesc(s, k) ==
    LET ord == PickOrder(k, 1..Len(s)) IN [ n \in 1..Len(s) |-> s[ord[n]] ]

\* (r.updatedAt || r.createdAt): a Date is truthy, null is not.
UpdatedOrCreated(r) == IF r.updatedAt # Null THEN r.updatedAt ELSE r.createdAt

\* A generator that starts over: it returns the first identifier again.
randomUUIDRepeats == IF nextId > 1 THEN 1 ELSE nextId
\* randomUUID()
randomUUID == nextId

\* What an operation left behind: its name, the identifier it was called on (for a
\* create, the one it assigned), whether it returned or threw, the HTTP status of
\* the response (0 for a method call), and the value returned.
Ok(op, arg, v) == [op |-> op, arg |-> arg, status |-> "ok", http |-> 0, value |-> v]
Threw(op, arg) == [op |-> op, arg |-> arg, status |-> "throw", http |-> 0, value |-> Undefined]
Http(op, arg, code, v) == [op |-> op, arg |-> arg, status |-> "ok", http |-> code, value |-> v]

\* ------------------------------------------------ MemStorage: pure methods
\* Each method is the storage it leaves, given the storage st it starts from.

\* constructor: the demo user is the only record.
MemStorage ==
    [ t \in EntityTypes |->
        IF t = "users"
        THEN << [ key |-> DEFAULT_USER_ID,
                  val |-> [ id |-> DEFAULT_USER_ID, username |-> "demo", createdAt |-> 0 ] ] >>
        ELSE << >> ]

Filter(m, Test(_)) == SelectSeq(MapValues(m), Test)
KeysOf(s, Key(_)) == [ i \in 1..Len(s) |-> Key(s[i]) ]
CreatedAt(r) == r.createdAt
MinusCreatedAt(r) == 0 - r.createdAt
CompletedAt(r) == r.completedAt

getUser(st, id) == MapGet(st.users, id)
getUserByUsername(st, username) ==
    LET found == Filter(st.users, LAMBDA u : u.username = username)
    IN  IF Len(found) = 0 THEN Undefined ELSE found[1]
createUser(st, id, insertUser) ==
    [ st EXCEPT !.users = MapSet(@, id, Spread(insertUser, [id |-> id, createdAt |-> now])) ]

getUserConversations(st, userId) ==
    LET own == Filter(st.conversations, LAMBDA c : c.userId = userId)
    IN  StableSortDesc(own, KeysOf(own, UpdatedOrCreated))
getConversation(st, id) == MapGet(st.conversations, id)
createConversation(st, id, insertConversation) ==
    [ st EXCEPT !.conversations =
        MapSet(@, id, Spread(insertConversation,
                             [id |-> id, createdAt |-> now, updatedAt |-> now])) ]
\* if (!existing) throw new Error("Conversation not found")
updateConversation(st, id, updates) ==
    IF ~MapHas(st.conversations, id) THEN [ threw |-> TRUE, st |-> st ]
    ELSE [ threw |-> FALSE,
           st |-> [ st EXCEPT !.conversations = 
                 MapSet(@, id, Spread(Spread(MapGet(@, id), updates),
                                      [updatedAt |-> now])) ] ]
deleteConversation(st, id) ==
    [ st EXCEPT !.conversations = MapDelete(@, id),
                !.messages = SelectSeq(@, LAMBDA e : e.val.conversationId # id) ]

getConversationMessages(st, conversationId) ==
    LET own == Filter(st.messages, LAMBDA m : m.conversationId = conversationId)
    IN  StableSortDesc(own, KeysOf(own, MinusCreatedAt))
\* A creation that also advances the owning conversation's updatedAt.
createMessageBumps(st, id, insertMessage) ==
    [ st EXCEPT !.messages =
                  MapSet(@, id, Spread(insertMessage, [id |-> id, createdAt |-> now])),
                !.conversations =
                  IF MapHas(@, insertMessage.conversationId)
                  THEN MapSet(@, insertMessage.conversationId,
                              Spread(MapGet(@, insertMessage.conversationId),
                                     [updatedAt |-> now]))
                  ELSE @ ]
createMessage(st, id, insertMessage) ==
    [ st EXCEPT !.messages =
        MapSet(@, id, Spread(insertMessage, [id |-> id, createdAt |-> now])) ]

getUserFlashcardSets(st, userId) ==
    LET own == Filter(st.flashcardSets, LAMBDA s : s.userId = userId)
    IN  StableSortDesc(own, KeysOf(own, UpdatedOrCreated))
getFlashcardSet(st, id) == MapGet(st.flashcardSets, id)
createFlashcardSet(st, id, insertSet) ==
    [ st EXCEPT !.flashcardSets =
        MapSet(@, id, Spread(insertSet, [id |-> id, createdAt |-> now, updatedAt |-> now])) ]
\* if (!existing) throw new Error("Flashcard set not found")
updateFlashcardSet(st, id, updates) ==
    IF ~MapHas(st.flashcardSets, id) THEN [ threw |-> TRUE, st |-> st ]
    ELSE [ threw |-> FALSE,
           st |-> [ st EXCEPT !.flashcardSets = 
                 MapSet(@, id, Spread(Spread(MapGet(@, id), updates),
                                      [updatedAt |-> now])) ] ]
deleteFlashcardSet(st, id) ==
    [ st EXCEPT !.flashcardSets = MapDelete(@, id),
                !.flashcards = SelectSeq(@, LAMBDA e : e.val.setId # id) ]

getSetFlashcards(st, setId) ==
    LET own == Filter(st.flashcards, LAMBDA c : c.setId = setId)
    IN  StableSortDesc(own, KeysOf(own, MinusCreatedAt))
\* insertCard.difficulty || 1: undefined, null and 0 become 1.
createFlashcard(st, id, insertCard) ==
    [ st EXCEPT !.flashcards =
        MapSet(@, id, Spread(insertCard,
            [ id |-> id,
              difficulty |-> IF insertCard.difficulty \in {Null, 0} THEN 1
                             ELSE insertCard.difficulty,
              reviewCount |-> 0, masteryLevel |-> 0, lastReviewed |-> Null,
              createdAt |-> now ])) ]
\* An update that stores the payload when the identifier is absent.
updateFlashcardUpsert(st, id, updates) ==
    [ threw |-> FALSE,
      st |-> [ st EXCEPT !.flashcards =
                 MapSet(@, id, IF MapHas(@, id) THEN Spread(MapGet(@, id), updates)
                               ELSE updates) ] ]
\* if (!existing) throw new Error("Flashcard not found")
updateFlashcard(st, id, updates) ==
    IF ~MapHas(st.flashcards, id) THEN [ threw |-> TRUE, st |-> st ]
    ELSE [ threw |-> FALSE,
           st |-> [ st EXCEPT !.flashcards = MapSet(@, id, Spread(MapGet(@, id), updates)) ] ]
deleteFlashcard(st, id) == [ st EXCEPT !.flashcards = MapDelete(@, id) ]

\* The filter without the sort: the notes in insertion order.
getUserNotesUnsorted(st, userId) == Filter(st.notes, LAMBDA n : n.userId = userId)
getUserNotes(st, userId) ==
    LET own == Filter(st.notes, LAMBDA n : n.userId = userId)
    IN  StableSortDesc(own, KeysOf(own, UpdatedOrCreated))
getNote(st, id) == MapGet(st.notes, id)
createNote(st, id, insertNote) ==
    [ st EXCEPT !.notes =
        MapSet(@, id, Spread(insertNote, [id |-> id, createdAt |-> now, updatedAt |-> now])) ]
\* if (!existing) throw new Error("Note not found")
updateNote(st, id, updates) ==
    IF ~MapHas(st.notes, id) THEN [ threw |-> TRUE, st |-> st ]
    ELSE [ threw |-> FALSE,
           st |-> [ st EXCEPT !.notes = 
                 MapSet(@, id, Spread(Spread(MapGet(@, id), updates),
                                      [updatedAt |-> now])) ] ]
deleteNote(st, id) == [ st EXCEPT !.notes = MapDelete(@, id) ]

getUserQuizzes(st, userId) ==
    LET own == Filter(st.quizzes, LAMBDA q : q.userId = userId)
    IN  StableSortDesc(own, KeysOf(own, CreatedAt))
\* A fetch that reads the first entry when the identifier is absent.
getQuizOrFirst(st, id) ==
    IF MapHas(st.quizzes, id) \/ Len(st.quizzes) = 0 THEN MapGet(st.quizzes, id)
    ELSE st.quizzes[1].val
getQuiz(st, id) == MapGet(st.quizzes, id)
createQuiz(st, id, insertQuiz) ==
    [ st EXCEPT !.quizzes = MapSet(@, id, Spread(insertQuiz, [id |-> id, createdAt |-> now])) ]
\* A cascade that clears the whole attempts Map.
deleteQuizAllAttempts(st, id) ==
    [ st EXCEPT !.quizzes = MapDelete(@, id), !.quizAttempts = << >> ]
deleteQuiz(st, id) ==
    [ st EXCEPT !.quizzes = MapDelete(@, id),
                !.quizAttempts = SelectSeq(@, LAMBDA e : e.val.quizId # id) ]

getQuizAttempts(st, quizId) ==
    LET own == Filter(st.quizAttempts, LAMBDA a : a.quizId = quizId)
    IN  StableSortDesc(own, KeysOf(own, CompletedAt))
getUserQuizAttempts(st, userId) ==
    LET own == Filter(st.quizAttempts, LAMBDA a : a.userId = userId)
    IN  StableSortDesc(own, KeysOf(own, CompletedAt))
createQuizAttempt(st, id, insertAttempt) ==
    [ st EXCEPT !.quizAttempts =
        MapSet(@, id, Spread(insertAttempt, [id |-> id, completedAt |-> now])) ]

getUserVideoGenerations(st, userId) ==
    LET own == Filter(st.videoGenerations, LAMBDA v : v.userId = userId)
    IN  StableSortDesc(own, KeysOf(own, CreatedAt))
getVideoGeneration(st, id) == MapGet(st.videoGenerations, id)
\* A creation that stores the record as processing already.
createVideoGenerationProcessing(st, id, insertVideo) ==
    [ st EXCEPT !.videoGenerations =
        MapSet(@, id, Spread(insertVideo,
            [ id |-> id, status |-> "processing", videoUrl |-> Null, thumbnailUrl |-> Null,
              completedAt |-> Null, createdAt |-> now ])) ]
createVideoGeneration(st, id, insertVideo) ==
    [ st EXCEPT !.videoGenerations =
        MapSet(@, id, Spread(insertVideo,
            [ id |-> id, status |-> "pending", videoUrl |-> Null, thumbnailUrl |-> Null,
              completedAt |-> Null, createdAt |-> now ])) ]
\* if (!existing) throw new Error("Video generation not found")
updateVideoGeneration(st, id, updates) ==
    IF ~MapHas(st.videoGenerations, id) THEN [ threw |-> TRUE, st |-> st ]
    ELSE [ threw |-> FALSE,
           st |-> [ st EXCEPT !.videoGenerations = MapSet(@, id, Spread(MapGet(@, id), updates)) ] ]

\* ------------------------------------------------------ inputs of the model
ParentIds(m) == MapKeys(m) \cup {NoSuchId}
Ids == 1..MaxIds \cup {NoSuchId}

InsertUsers == [ username : {"demo", "bob"} ]
InsertConversations == [ userId : UserIds, title : {"t0"} ]
InsertMessages == [ conversationId : ParentIds(storage.conversations),
                    role : {"user", "assistant"}, content : {"hello"} ]
InsertFlashcardSets == [ userId : UserIds, title : {"t0"} ]
InsertFlashcards == [ setId : ParentIds(storage.flashcardSets), difficulty : {Null, 2} ]
InsertNotes == [ userId : UserIds, title : {"t0"} ]
InsertQuizzes == [ userId : UserIds, questions : { << [correctAnswer |-> 0] >> } ]
InsertQuizAttempts == [ quizId : ParentIds(storage.quizzes), userId : {DEFAULT_USER_ID},
                        answers : { << 0 >> }, score : {1}, totalQuestions : {1} ]
InsertVideoGenerations == [ userId : UserIds, prompt : {"p0"} ]

\* Partial<T> payloads (for PUT, the request body, which no schema validates):
\* one that changes a content field, and one that carries the identity fields,
\* the owner and the instants.
OwnedUpdates ==
    { [title |-> "t1"],
      [id |-> NoSuchId, userId |-> OtherUserId,
       createdAt |-> PayloadInstant, updatedAt |-> PayloadInstant] }
FlashcardUpdates ==
    { [masteryLevel |-> 50, reviewCount |-> 1],
      [id |-> NoSuchId, createdAt |-> PayloadInstant, difficulty |-> 7] }
VideoUpdates ==
    { [status |-> "failed"], [id |-> NoSuchId, createdAt |-> PayloadInstant] }

\* The useWebSocket hook before its effects have run.
UseWebSocket ==
    [ mounted |-> FALSE, shouldReconnect |-> TRUE, socks |-> << >>, socketRef |-> 0,
      connectionStatus |-> "Closed", timeouts |-> {}, reconnectTimeoutRef |-> 0,
      cleared |-> {}, hidden |-> FALSE ]

\* ChatInterface at its first render: no conversation selected, not typing, an
\* empty textarea (ChatInput's message), no message event received.  creating
\* are the POST /api/conversations requests in flight (their titles), sent
\* the frames handed to socket.send, submitted the history of the messages
\* submitted, read the place in the relay's history up to which the frames
\* delivered have raised their message event, lastMessage the place of the
\* frame of the last event (0 for null), effect whether the lastMessage effect
\* is still to run.
ChatInterface ==
    [ currentConversationId |-> Null, isTyping |-> FALSE, message |-> "",
      creating |-> << >>, sent |-> << >>, submitted |-> << >>,
      read |-> 0, lastMessage |-> 0, effect |-> FALSE ]

\* ----------------------------------------------------------------- actions
Init ==
    /\ storage = MemStorage
    /\ now = 0
    /\ nextId = 1
    /\ assigned = << >>
    /\ ret = Ok("constructor", DEFAULT_USER_ID, Undefined)
    /\ sockets = [ c \in Conns |-> "none" ]
    /\ calls = {}
    /\ trace = << >>
    /\ timers = {}
    /\ hook = UseWebSocket
    /\ chat = ChatInterface

\* Time passes between two operations.
Tick ==
    /\ now < MaxTime
    /\ now' = now + 1
    /\ UNCHANGED << storage, nextId, assigned, ret, wsVars, hook, chat, timers >>

\* A create method: one randomUUID() call, one Map.set, the record is returned.
Create(type, op, st) ==
    /\ nextId <= MaxIds
    /\ storage' = st
    /\ nextId' = nextId + 1
    /\ assigned' = Append(assigned, [type |-> type, id |-> randomUUID])
    /\ ret' = Ok(op, randomUUID, MapGet(st[type], randomUUID))
    /\ UNCHANGED << now, wsVars, hook, chat, timers >>

\* An update method: throws, or stores and returns the merged record.
Update(type, op, id, res) ==
    /\ storage' = res.st
    /\ ret' = IF res.threw THEN Threw(op, id) ELSE Ok(op, id, MapGet(res.st[type], id))
    /\ UNCHANGED << now, nextId, assigned, wsVars, hook, chat, timers >>

\* A delete method returns nothing.
Delete(op, id, st) ==
    /\ storage' = st
    /\ ret' = Ok(op, id, Undefined)
    /\ UNCHANGED << now, nextId, assigned, wsVars, hook, chat, timers >>

\* A fetch-by-id method returns the record or undefined.
Get(op, id, v) ==
    /\ ret' = Ok(op, id, v)
    /\ UNCHANGED << storage, now, nextId, assigned, wsVars, hook, chat, timers >>

CreateUser(insertUser) ==
    Create("users", "createUser", createUser(storage, randomUUID, insertUser))
GetUser(id) == Get("getUser", id, getUser(storage, id))

CreateConversation(insert) ==
    Create("conversations", "createConversation",
           createConversation(storage, randomUUID, insert))
UpdateConversation(id, updates) ==
    Update("conversations", "updateConversation", id, updateConversation(storage, id, updates))
DeleteConversation(id) == Delete("deleteConversation", id, deleteConversation(storage, id))
GetConversation(id) == Get("getConversation", id, getConversation(storage, id))

CreateMessage(insert) ==
    Create("messages", "createMessage", createMessage(storage, randomUUID, insert))

CreateFlashcardSet(insert) ==
    Create("flashcardSets", "createFlashcardSet",
           createFlashcardSet(storage, randomUUID, insert))
UpdateFlashcardSet(id, updates) ==
    Update("flashcardSets", "updateFlashcardSet", id, updateFlashcardSet(storage, id, updates))
DeleteFlashcardSet(id) == Delete("deleteFlashcardSet", id, deleteFlashcardSet(storage, id))
GetFlashcardSet(id) == Get("getFlashcardSet", id, getFlashcardSet(storage, id))

CreateFlashcard(insert) ==
    Create("flashcards", "createFlashcard", createFlashcard(storage, randomUUID, insert))
UpdateFlashcard(id, updates) ==
    Update("flashcards", "updateFlashcard", id, updateFlashcard(storage, id, updates))
DeleteFlashcard(id) == Delete("deleteFlashcard", id, deleteFlashcard(storage, id))

CreateNote(insert) == Create("notes", "createNote", createNote(storage, randomUUID, insert))
UpdateNote(id, updates) ==
    Update("notes", "updateNote", id, updateNote(storage, id, updates))
DeleteNote(id) == Delete("deleteNote", id, deleteNote(storage, id))
GetNote(id) == Get("getNote", id, getNote(storage, id))

\* app.put("/api/notes/:id") and app.put("/api/flashcards/:id"): the body goes to
\* the update method as it is; 200 with the record, 400 when the method throws.
Put(type, op, id, res) ==
    /\ storage' = res.st
    /\ ret' = IF res.threw
              THEN [op |-> op, arg |-> id, status |-> "throw", http |-> 400,
                    value |-> Undefined]
              ELSE Http(op, id, 200, MapGet(res.st[type], id))
    /\ UNCHANGED << now, nextId, assigned, wsVars, hook, chat, timers >>
PutNote(id, body) == Put("notes", "PUT /api/notes/:id", id, updateNote(storage, id, body))
PutFlashcard(id, body) ==
    Put("flashcards", "PUT /api/flashcards/:id", id, updateFlashcard(storage, id, body))

CreateQuiz(insert) == Create("quizzes", "createQuiz", createQuiz(storage, randomUUID, insert))
DeleteQuiz(id) == Delete("deleteQuiz", id, deleteQuiz(storage, id))
GetQuiz(id) == Get("getQuiz", id, getQuiz(storage, id))

CreateQuizAttempt(insert) ==
    Create("quizAttempts", "createQuizAttempt",
           createQuizAttempt(storage, randomUUID, insert))

CreateVideoGeneration(insert) ==
    Create("videoGenerations", "createVideoGeneration",
           createVideoGeneration(storage, randomUUID, insert))
UpdateVideoGeneration(id, updates) ==
    Update("videoGenerations", "updateVideoGeneration", id,
           updateVideoGeneration(storage, id, updates))
GetVideoGeneration(id) == Get("getVideoGeneration", id, getVideoGeneration(storage, id))

\* Any caller of the methods of IStorage that write, and the two PUT routes.  The
\* methods that only read are the operators above; the fetch-by-id methods act
\* in SpecFetch.
Next ==
    \/ Tick
    \/ \E i \in InsertUsers : CreateUser(i)
    \/ \E i \in InsertConversations : CreateConversation(i)
    \/ \E id \in Ids, u \in OwnedUpdates : UpdateConversation(id, u)
    \/ \E id \in Ids : DeleteConversation(id)
    \/ \E i \in InsertMessages : CreateMessage(i)
    \/ \E i \in InsertFlashcardSets : CreateFlashcardSet(i)
    \/ \E id \in Ids, u \in OwnedUpdates : UpdateFlashcardSet(id, u)
    \/ \E id \in Ids : DeleteFlashcardSet(id)
    \/ \E i \in InsertFlashcards : CreateFlashcard(i)
    \/ \E id \in Ids, u \in FlashcardUpdates : UpdateFlashcard(id, u)
    \/ \E id \in Ids : DeleteFlashcard(id)
    \/ \E i \in InsertNotes : CreateNote(i)
    \/ \E id \in Ids, u \in OwnedUpdates : UpdateNote(id, u)
    \/ \E id \in Ids : DeleteNote(id)
    \/ \E i \in InsertQuizzes : CreateQuiz(i)
    \/ \E id \in Ids : DeleteQuiz(id)
    \/ \E i \in InsertQuizAttempts : CreateQuizAttempt(i)
    \/ \E i \in InsertVideoGenerations : CreateVideoGeneration(i)
    \/ \E id \in Ids, u \in VideoUpdates : UpdateVideoGeneration(id, u)
    \/ \E id \in Ids, b \in OwnedUpdates : PutNote(id, b)
    \/ \E id \in Ids, b \in FlashcardUpdates : PutFlashcard(id, b)

Spec == Init /\ [][Next]_vars

\* The fetch-by-id methods, on the stores that creates and deletes reach.
NextFetch ==
    \/ \E i \in InsertUsers : CreateUser(i)
    \/ \E i \in InsertConversations : CreateConversation(i)
    \/ \E i \in InsertFlashcardSets : CreateFlashcardSet(i)
    \/ \E i \in InsertNotes : CreateNote(i)
    \/ \E i \in InsertQuizzes : CreateQuiz(i)
    \/ \E i \in InsertVideoGenerations : CreateVideoGeneration(i)
    \/ \E id \in Ids : DeleteConversation(id)
    \/ \E id \in Ids : DeleteFlashcardSet(id)
    \/ \E id \in Ids : DeleteNote(id)
    \/ \E id \in Ids : DeleteQuiz(id)
    \/ \E id \in Ids \cup {DEFAULT_USER_ID} : GetUser(id)
    \/ \E id \in Ids : GetConversation(id)
    \/ \E id \in Ids : GetFlashcardSet(id)
    \/ \E id \in Ids : GetNote(id)
    \/ \E id \in Ids : GetQuiz(id)
    \/ \E id \in Ids : GetVideoGeneration(id)

SpecFetch == Init /\ [][NextFetch]_vars

\* ------------------------------------------- POST /api/quizzes/:id/attempts
\* The JSON values of an answer and of a question's correctAnswer: option indexes.
Options == {0, 1, 2}
ArraysOf(S) == UNION { [1..n -> S] : n \in 0..MaxQuestions }
QuestionArrays ==
    { [ i \in 1..Len(cs) |-> [correctAnswer |-> cs[i]] ] : cs \in ArraysOf(Options) }
QuizBodies == [ userId : {DEFAULT_USER_ID}, questions : QuestionArrays ]
\* A body with an answers array, and one without.
AttemptBodies == [ answers : ArraysOf(Options) ] \cup { [comment |-> "no answers"] }

\* A scoring that compares every answer with the first question's correctAnswer.
ScoreAgainstFirst(questions, answers) ==
    Cardinality({ index \in 1..Len(answers) :
        Len(questions) > 0 /\ answers[index] = questions[1].correctAnswer })
\* A scoring that counts every answer given beyond the last question.
ScoreBeyond(questions, answers) ==
    Cardinality({ index \in 1..Len(answers) :
        index > Len(questions) \/ answers[index] = questions[index].correctAnswer })
\* answers.forEach((answer, index) => { if (questions[index] && answer ===
\* questions[index].correctAnswer) score++ })
Score(questions, answers) ==
    Cardinality({ index \in 1..Len(answers) :
        index <= Len(questions) /\ answers[index] = questions[index].correctAnswer })

PostQuizAttempt(id, body) ==
    LET op == "POST /api/quizzes/:id/attempts"
        quiz == getQuiz(storage, id)
        attempt == [ quizId |-> id, userId |-> DEFAULT_USER_ID, answers |-> body.answers,
                     score |-> Score(quiz.questions, body.answers),
                     totalQuestions |-> Len(quiz.questions) ]
        st == createQuizAttempt(storage, randomUUID, attempt)
    IN  IF quiz = Undefined
        THEN /\ ret' = Http(op, id, 404, Undefined)
             /\ UNCHANGED << storage, now, nextId, assigned, wsVars, hook, chat, timers >>
        ELSE IF "answers" \notin DOMAIN body
        THEN /\ ret' = Http(op, id, 400, Undefined)
             /\ UNCHANGED << storage, now, nextId, assigned, wsVars, hook, chat, timers >>
        ELSE /\ nextId <= MaxIds
             /\ storage' = st
             /\ nextId' = nextId + 1
             /\ assigned' = Append(assigned, [type |-> "quizAttempts", id |-> randomUUID])
             /\ ret' = Http(op, randomUUID, 200, MapGet(st.quizAttempts, randomUUID))
             /\ UNCHANGED << now, wsVars, hook, chat, timers >>

NextQuiz ==
    \/ Tick
    \/ \E i \in QuizBodies : CreateQuiz(i)
    \/ \E id \in Ids : DeleteQuiz(id)
    \/ \E id \in Ids, b \in AttemptBodies : PostQuizAttempt(id, b)

SpecQuiz == Init /\ [][NextQuiz]_vars

\* ------------------------------------------------ POST /api/video-generations
\* Request bodies: a valid one, one that also carries the fields the insert
\* schema omits, and one without the required fields.
VideoBodies ==
    { [prompt |-> "p0"],
      [prompt |-> "p0", userId |-> OtherUserId, status |-> "completed", videoUrl |-> 7,
       completedAt |-> PayloadInstant],
      [style |-> "s0"] }

\* insertVideoGenerationSchema.parse({...req.body, userId: DEFAULT_USER_ID}): throws
\* without the required fields, drops the keys the schema does not have.
insertVideoGenerationSchema(body) ==
    IF "prompt" \notin DOMAIN body THEN [ threw |-> TRUE ]
    ELSE [ threw |-> FALSE, data |-> [ userId |-> DEFAULT_USER_ID, prompt |-> body.prompt ] ]

\* `https://example.com/videos/${video.id}.mp4` and the thumbnail's: a string made
\* of the id, written as the id.
UrlOf(id) == id

\* The handler: parse, create, setTimeout(..., 5000), res.json(video).  The timer
\* is due at the next instant of the model's clock.
PostVideoGeneration(body) ==
    LET op == "POST /api/video-generations"
        parsed == insertVideoGenerationSchema(body)
        st == createVideoGeneration(storage, randomUUID, parsed.data)
    IN  IF parsed.threw
        THEN /\ ret' = Http(op, NoSuchId, 400, Undefined)
             /\ UNCHANGED << storage, now, nextId, assigned, wsVars, hook, chat, timers >>
        ELSE /\ nextId <= MaxIds
             /\ storage' = st
             /\ nextId' = nextId + 1
             /\ assigned' = Append(assigned, [type |-> "videoGenerations", id |-> randomUUID])
             /\ timers' = timers \cup { [id |-> randomUUID, due |-> now + 1] }
             /\ ret' = Http(op, randomUUID, 200, MapGet(st.videoGenerations, randomUUID))
             /\ UNCHANGED << now, wsVars, hook, chat >>

\* A callback that gives the generation up: the record is marked failed.
TimerFireFailed(t) ==
    LET at == IF now >= t.due THEN now ELSE t.due
        res == updateVideoGeneration(storage, t.id, [ status |-> "failed" ])
    IN  /\ t \in timers
        /\ timers' = timers \ {t}
        /\ now' = at
        /\ storage' = res.st
        /\ ret' = IF res.threw THEN Threw("setTimeout callback", t.id)
                  ELSE Ok("setTimeout callback", t.id, Undefined)
        /\ UNCHANGED << nextId, assigned, wsVars, hook, chat >>
\* The setTimeout callback, run once, not before it is due: updateVideoGeneration
\* with the completed fields; an error is caught and logged.
TimerFire(t) ==
    LET at == IF now >= t.due THEN now ELSE t.due
        res == updateVideoGeneration(storage, t.id,
                   [ status |-> "completed", videoUrl |-> UrlOf(t.id),
                     thumbnailUrl |-> UrlOf(t.id), completedAt |-> at ])
    IN  /\ t \in timers
        /\ timers' = timers \ {t}
        /\ now' = at
        /\ storage' = res.st
        /\ ret' = IF res.threw THEN Threw("setTimeout callback", t.id)
                  ELSE Ok("setTimeout callback", t.id, Undefined)
        /\ UNCHANGED << nextId, assigned, wsVars, hook, chat >>

\* app.get("/api/video-generations/:id"): 404 or the record.
FetchVideoGeneration(id) ==
    LET op == "GET /api/video-generations/:id"
        video == getVideoGeneration(storage, id)
    IN  /\ ret' = IF video = Undefined THEN Http(op, id, 404, Undefined)
                  ELSE Http(op, id, 200, video)
        /\ UNCHANGED << storage, now, nextId, assigned, wsVars, hook, chat, timers >>

\* Each firing may move the clock one instant past MaxTime.
Timers == [ id : 1..MaxIds, due : 1..(MaxTime + MaxIds) ]

\* The video routes, among requests on another store.
NextVideo ==
    \/ Tick
    \/ \E b \in VideoBodies : PostVideoGeneration(b)
    \/ \E t \in Timers : TimerFire(t)
    \/ \E id \in Ids : FetchVideoGeneration(id)
    \/ \E i \in InsertNotes : CreateNote(i)
    \/ \E id \in Ids : DeleteNote(id)

\* Node runs a timer's callback once it is due, as long as the process lives.
SpecVideo == Init /\ [][NextVideo]_vars /\ \A t \in Timers : WF_vars(TimerFire(t))

\* ------------------------------------------------------ the chat relay (/ws)
\* What a client sends is text; the model keeps what JSON.parse makes of it:
\* a SyntaxError, the value null, an object of another type, or a chat_message
\* object, with or without a model.
NoModel == "undefined"
ChatMessages ==
    [ kind : {"object"}, type : {"chat_message"},
      conversationId : ParentIds(storage.conversations), content : {"hello"},
      model : {"gpt-5", "claude-sonnet-4", "llama-3", NoModel} ]
NotChatMessages ==
    { [kind |-> "SyntaxError"], [kind |-> "null"],
      [kind |-> "object", type |-> "typing", conversationId |-> NoSuchId,
       content |-> "hello", model |-> "gpt-5"] }
Data == ChatMessages \cup NotChatMessages

\* JSON.parse(data.toString())
JSONparse(data) ==
    IF data.kind = "SyntaxError" THEN [ threw |-> TRUE ] ELSE [ threw |-> FALSE, value |-> data ]

\* A test that takes every object for a chat message.
isAnyObject(message) == message.kind = "object"
\* message.type === 'chat_message'; reading .type of null throws, which the outer
\* catch logs like a SyntaxError.
isChatMessage(message) == message.kind = "object" /\ message.type = "chat_message"

\* A test that holds of every model for the first prefix asked.
startsWithAny(model, prefix) == prefix = "gpt"
\* model.startsWith(prefix), on the models of ChatMessages.
startsWith(model, prefix) ==
    << model, prefix >> \in { << "gpt-5", "gpt" >>, << "claude-sonnet-4", "claude" >> }

\* The history of the relay: one event per thing it did for frame f of connection c.
Ev(e, f, c, x, id) == [ e |-> e, f |-> f, c |-> c, x |-> x, id |-> id ]
Received(f, c, data) == [ e |-> "receive", f |-> f, c |-> c, data |-> data ]
Frames == { trace[i].f : i \in { j \in 1..Len(trace) : trace[j].e = "receive" } }

\* ws.send on a socket that is open delivers the frame; on one that is not open it
\* throws or drops the frame, depending on the version of ws.
SendOutcomes(c) == IF sockets[c] = "open" THEN {"delivered"} ELSE {"dropped", "throws"}
Sent(f, c, x, id, outcome) ==
    [ e |-> "send", f |-> f, c |-> c, x |-> x, id |-> id, outcome |-> outcome ]

\* { type: 'error', message: 'Failed to get AI response: ' + error.message } handed
\* to ws.send: the concatenation is kept as the pair of its parts.
SentError(f, c, details, outcome) ==
    [ e |-> "send", f |-> f, c |-> c, x |-> "error", id |-> Null, outcome |-> outcome,
      message |-> << "Failed to get AI response: ", details >> ]
\* error.message of the TypeError of model.startsWith, and of a provider's failure.
TypeErrorMessage == "Cannot read properties of undefined (reading 'startsWith')"
ProviderErrorMessage == "401 Incorrect API key provided"

userMessage(message) ==
    [ conversationId |-> message.conversationId, role |-> "user",
      content |-> message.content, attachments |-> Null ]
assistantMessage(conversationId, aiResponse) ==
    [ conversationId |-> conversationId, role |-> "assistant",
      content |-> aiResponse, attachments |-> Null ]

\* wss.on('connection') and ws.on('close')
Connect(c) ==
    /\ sockets[c] = "none"
    /\ sockets' = [ sockets EXCEPT ![c] = "open" ]
    /\ UNCHANGED << storage, now, nextId, assigned, ret, calls, trace, timers, hook, chat >>
\* A close that cancels the connection's pending provider calls.
CloseCancels(c) ==
    /\ sockets[c] = "open"
    /\ sockets' = [ sockets EXCEPT ![c] = "closed" ]
    /\ calls' = { call \in calls : call.c # c }
    /\ UNCHANGED << storage, now, nextId, assigned, ret, trace, timers, hook, chat >>
Close(c) ==
    /\ sockets[c] = "open"
    /\ sockets' = [ sockets EXCEPT ![c] = "closed" ]
    /\ UNCHANGED << storage, now, nextId, assigned, ret, calls, trace, timers, hook, chat >>

\* ws.on('message'), up to the await of the provider's answer (the awaits of the
\* storage methods resume in the same turn of the event loop).
Receive(c, data) ==
    LET f == Cardinality(Frames) + 1
        parsed == JSONparse(data)
        message == parsed.value
        userId == randomUUID
        st1 == createMessage(storage, userId, userMessage(message))
        start == << Received(f, c, data), Ev("persist", f, c, "user", userId),
                    Sent(f, c, "typing:true", Null, "delivered") >>
        replyId == userId + 1
        st2 == createMessage(st1, replyId,
                             assistantMessage(message.conversationId, "Model not supported"))
    IN  /\ sockets[c] = "open"
        /\ f <= MaxFrames
        /\ UNCHANGED << now, ret, sockets, timers, hook, chat >>
        /\ IF parsed.threw \/ ~isChatMessage(message)
           THEN /\ trace' = Append(trace, Received(f, c, data))
                /\ UNCHANGED << storage, nextId, assigned, calls >>
           ELSE IF message.model = NoModel
           THEN \* model.startsWith throws a TypeError: the inner catch
                /\ storage' = st1
                /\ nextId' = nextId + 1
                /\ assigned' = Append(assigned, [type |-> "messages", id |-> userId])
                /\ trace' = trace \o start \o << SentError(f, c, TypeErrorMessage, "delivered") >>
                /\ UNCHANGED calls
           ELSE IF startsWith(message.model, "gpt") \/ startsWith(message.model, "claude")
           THEN /\ storage' = st1
                /\ nextId' = nextId + 1
                /\ assigned' = Append(assigned, [type |-> "messages", id |-> userId])
                /\ trace' = trace \o start \o
                       << Ev("invoke", f, c, IF startsWith(message.model, "gpt")
                                             THEN "openai" ELSE "anthropic", Null) >>
                /\ calls' = calls \cup
                       { [ f |-> f, c |-> c, conversationId |-> message.conversationId,
                           provider |-> IF startsWith(message.model, "gpt")
                                        THEN "openai" ELSE "anthropic" ] }
           ELSE /\ storage' = st2
                /\ nextId' = nextId + 2
                /\ assigned' = assigned \o << [type |-> "messages", id |-> userId],
                                              [type |-> "messages", id |-> replyId] >>
                /\ trace' = trace \o start \o
                       << Ev("persist", f, c, "assistant", replyId),
                          Sent(f, c, "typing:false", Null, "delivered"),
                          Sent(f, c, "message", replyId, "delivered") >>
                /\ UNCHANGED calls

\* What the provider answers: a text, or nothing (null or empty content).
Answers == {"hi", ""}

\* A reply whose message frame leaves before the typing:false frame.
ReplyMessageFirst(call, aiResponse, kind) ==
    LET id == randomUUID
    IN  /\ call \in calls
        /\ calls' = calls \ {call}
        /\ storage' = createMessage(storage, id, assistantMessage(call.conversationId, aiResponse))
        /\ nextId' = nextId + 1
        /\ assigned' = Append(assigned, [type |-> "messages", id |-> id])
        /\ \E outcome \in SendOutcomes(call.c) :
              trace' = trace \o << Ev(kind, call.f, call.c, call.provider, Null),
                                   Ev("persist", call.f, call.c, "assistant", id) >>
                       \o IF outcome = "throws" THEN << >>
                          ELSE << Sent(call.f, call.c, "message", id, outcome),
                                  Sent(call.f, call.c, "typing:false", Null, outcome) >>
        /\ UNCHANGED << now, ret, sockets, timers, hook, chat >>

\* The rest of the handler once the provider has answered: the fallback for an
\* empty answer, createMessage, then the two sends.  A send that throws sends
\* the inner catch's error frame, which throws to the outer catch.
Reply(call, aiResponse, kind) ==
    LET id == randomUUID
    IN  /\ call \in calls
        /\ calls' = calls \ {call}
        /\ storage' = createMessage(storage, id, assistantMessage(call.conversationId, aiResponse))
        /\ nextId' = nextId + 1
        /\ assigned' = Append(assigned, [type |-> "messages", id |-> id])
        /\ \E outcome \in SendOutcomes(call.c) :
              trace' = trace \o << Ev(kind, call.f, call.c, call.provider, Null),
                                   Ev("persist", call.f, call.c, "assistant", id) >>
                       \o IF outcome = "throws" THEN << >>
                          ELSE << Sent(call.f, call.c, "typing:false", Null, outcome),
                                  Sent(call.f, call.c, "message", id, outcome) >>
        /\ UNCHANGED << now, ret, sockets, timers, hook, chat >>

ProviderResolve(call, text) ==
    Reply(call, IF text = "" THEN "Sorry, I couldn't generate a response." ELSE text, "resolve")

\* A rejection handled as an answer: the error's text is stored as the reply.
ProviderRejectStored(call) == Reply(call, "Failed to get AI response", "reject")
\* A failure that is only logged: no error frame.
ProviderRejectSilent(call) ==
    /\ call \in calls
    /\ calls' = calls \ {call}
    /\ trace' = Append(trace, Ev("reject", call.f, call.c, call.provider, Null))
    /\ UNCHANGED << storage, now, nextId, assigned, ret, sockets, timers, hook, chat >>
\* A failure after which the server terminates the connection.
ProviderRejectCloses(call) ==
    /\ call \in calls
    /\ calls' = calls \ {call}
    /\ \E outcome \in SendOutcomes(call.c) :
          trace' = trace \o << Ev("reject", call.f, call.c, call.provider, Null) >>
                   \o IF outcome = "throws" THEN << >>
                      ELSE << SentError(call.f, call.c, ProviderErrorMessage, outcome) >>
    /\ sockets' = [ sockets EXCEPT ![call.c] = "closed" ]
    /\ UNCHANGED << storage, now, nextId, assigned, ret, timers, hook, chat >>
\* The provider's promise rejects (or its answer has no choices): the inner catch
\* sends the error frame.
ProviderReject(call) ==
    /\ call \in calls
    /\ calls' = calls \ {call}
    /\ \E outcome \in SendOutcomes(call.c) :
          trace' = trace \o << Ev("reject", call.f, call.c, call.provider, Null) >>
                   \o IF outcome = "throws" THEN << >>
                      ELSE << SentError(call.f, call.c, ProviderErrorMessage, outcome) >>
    /\ UNCHANGED << storage, now, nextId, assigned, ret, sockets, timers, hook, chat >>

\* The relay, the conversations its frames name, and the clock.
NextRelay ==
    \/ Tick
    \/ \E i \in InsertConversations : CreateConversation(i)
    \/ \E c \in Conns : Connect(c)
    \/ \E c \in Conns : Close(c)
    \/ \E c \in Conns, d \in Data : Receive(c, d)
    \/ \E call \in calls, text \in Answers : ProviderResolve(call, text)
    \/ \E call \in calls : ProviderReject(call)

SpecRelay == Init /\ [][NextRelay]_vars

\* -------------------------------------------------- the generation routes
\* POST /api/flashcards/generate, POST /api/quizzes/generate and
\* POST /api/notes/:id/enhance each await one OpenAI call; the handler's part
\* before the await and its part after it are two steps, and calls holds the
\* calls awaited: the route, the note's id and the note's content as the
\* handler read it (NoSuchId and "" for the two other routes).
MaxCalls == 1

\* The texts a reply's message.content can be (written without the quotes of
\* JSON): an empty object, the object each prompt asks for, JSON cut off
\* before its end, prose, and the JSON value null; the last one is an enhanced
\* note.
ReplyTexts ==
    { "{}", "{flashcards:[{front:q,back:a}]}", "{title:T,questions:[{correctAnswer:0}]}",
      "{flashcards:[{front:q", "Here are your flashcards", "null", "c2" }
\* What openai.chat.completions.create yields: a rejection, a response with no
\* choices, or a first choice whose message.content is null, "" or a text.
Replies ==
    { [kind |-> "reject"], [kind |-> "nochoices"], [kind |-> "null"] }
        \cup [ kind : {"content"}, content : {""} \cup ReplyTexts ]

\* JSON.parse(text): the value, or a SyntaxError.
JSONparseText(text) ==
    CASE text = "{}" -> [ threw |-> FALSE, value |-> [kind |-> "object"] ]
      [] text = "{flashcards:[{front:q,back:a}]}" ->
            [ threw |-> FALSE,
              value |-> [kind |-> "object", flashcards |-> << [front |-> "q", back |-> "a"] >>] ]
      [] text = "{title:T,questions:[{correctAnswer:0}]}" ->
            [ threw |-> FALSE,
              value |-> [kind |-> "object", title |-> "T",
                         questions |-> << [correctAnswer |-> 0] >>] ]
      [] text = "null" -> [ threw |-> FALSE, value |-> [kind |-> "null"] ]
      [] OTHER -> [ threw |-> TRUE ]

\* response.choices[0].message.content || fallback: null and "" are falsy.
ContentOr(reply, fallback) ==
    IF reply.kind = "null" THEN fallback
    ELSE IF reply.content = "" THEN fallback
    ELSE reply.content
\* object.field || fallback, for a field that is absent or a non-empty value.
FieldOr(object, field, fallback) ==
    IF field \in DOMAIN object THEN object[field] ELSE fallback

\* JSON.parse(response.choices[0].message.content || "{}") and the reading of a
\* property of the result: throws on a response without choices, on text that
\* is not JSON, and on the value null.
ParseReply(reply) ==
    IF reply.kind \in {"reject", "nochoices"} THEN [ threw |-> TRUE ]
    ELSE LET parsed == JSONparseText(ContentOr(reply, "{}"))
         IN  IF parsed.threw THEN parsed
             ELSE IF parsed.value.kind = "null" THEN [ threw |-> TRUE ]
             ELSE parsed

\* The response of a generation route, with the reply it was computed from.
Generated(op, arg, code, v, reply) == Spread(Http(op, arg, code, v), [reply |-> reply])
\* The handler is suspended at its await.
Awaiting(op, arg) ==
    [op |-> op, arg |-> arg, status |-> "pending", http |-> 0, value |-> Undefined]

GenerateBodies == { [content |-> "text", subject |-> "s0"], [subject |-> "s0"] }
QuizGenerateBodies == { [subject |-> "s0", difficulty |-> "easy"], [difficulty |-> "easy"] }
NoteBodies == [ userId : {DEFAULT_USER_ID}, title : {"t0"}, content : {"c0"} ]
NoteContentUpdates == { [content |-> "c1"] }

\* app.post("/api/flashcards/generate"), up to the await.
PostFlashcardsGenerate(body) ==
    LET op == "POST /api/flashcards/generate"
    IN  /\ UNCHANGED << storage, now, nextId, assigned, sockets, trace, timers, hook, chat >>
        /\ IF "content" \notin DOMAIN body
           THEN /\ ret' = Http(op, NoSuchId, 400, Undefined)
                /\ UNCHANGED calls
           ELSE /\ Cardinality(calls) < MaxCalls
                /\ ret' = Awaiting(op, NoSuchId)
                /\ calls' = calls \cup
                       { [route |-> "flashcards", id |-> NoSuchId, content |-> ""] }

\* ... and from the await on: res.json(result.flashcards || []), or the catch.
FlashcardsGenerated(call, reply) ==
    LET op == "POST /api/flashcards/generate"
        result == ParseReply(reply)
    IN  /\ call \in calls /\ call.route = "flashcards"
        /\ calls' = calls \ {call}
        /\ ret' = IF result.threw THEN Generated(op, NoSuchId, 500, Undefined, reply)
                  ELSE Generated(op, NoSuchId, 200,
                                 FieldOr(result.value, "flashcards", << >>), reply)
        /\ UNCHANGED << storage, now, nextId, assigned, sockets, trace, timers, hook, chat >>

\* app.post("/api/quizzes/generate"), up to the await.
PostQuizzesGenerate(body) ==
    LET op == "POST /api/quizzes/generate"
    IN  /\ UNCHANGED << storage, now, nextId, assigned, sockets, trace, timers, hook, chat >>
        /\ IF "subject" \notin DOMAIN body
           THEN /\ ret' = Http(op, NoSuchId, 400, Undefined)
                /\ UNCHANGED calls
           ELSE /\ Cardinality(calls) < MaxCalls
                /\ ret' = Awaiting(op, NoSuchId)
                /\ calls' = calls \cup
                       { [route |-> "quiz", id |-> NoSuchId, content |-> ""] }

\* ... and from the await on: createQuiz with quizData.title || `${subject} Quiz`
\* and quizData.questions || [], or the catch.
QuizGenerated(call, reply) ==
    LET op == "POST /api/quizzes/generate"
        quizData == ParseReply(reply)
        st == createQuiz(storage, randomUUID,
                  [ userId |-> DEFAULT_USER_ID,
                    title |-> FieldOr(quizData.value, "title", "s0 Quiz"),
                    subject |-> "s0", difficulty |-> "easy",
                    questions |-> FieldOr(quizData.value, "questions", << >>) ])
    IN  /\ call \in calls /\ call.route = "quiz"
        /\ calls' = calls \ {call}
        /\ UNCHANGED << now, sockets, trace, timers, hook, chat >>
        /\ IF quizData.threw
           THEN /\ ret' = Generated(op, NoSuchId, 500, Undefined, reply)
                /\ UNCHANGED << storage, nextId, assigned >>
           ELSE /\ nextId <= MaxIds
                /\ storage' = st
                /\ nextId' = nextId + 1
                /\ assigned' = Append(assigned, [type |-> "quizzes", id |-> randomUUID])
                /\ ret' = Generated(op, randomUUID, 200, MapGet(st.quizzes, randomUUID), reply)

\* app.post("/api/notes/:id/enhance"), up to the await: 404, or the note is read.
PostNoteEnhance(id) ==
    LET op == "POST /api/notes/:id/enhance"
        note == getNote(storage, id)
    IN  /\ UNCHANGED << storage, now, nextId, assigned, sockets, trace, timers, hook, chat >>
        /\ IF note = Undefined
           THEN /\ ret' = Http(op, id, 404, Undefined)
                /\ UNCHANGED calls
           ELSE /\ Cardinality(calls) < MaxCalls
                /\ ret' = Awaiting(op, id)
                /\ calls' = calls \cup
                       { [route |-> "enhance", id |-> id, content |-> note.content] }

\* ... and from the await on: updateNote with message.content || note.content
\* (the content read before the await), or the catch.
NoteEnhanced(call, reply) ==
    LET op == "POST /api/notes/:id/enhance"
        res == updateNote(storage, call.id,
                          [ content |-> IF reply.kind \in {"reject", "nochoices"}
                                        THEN call.content
                                        ELSE ContentOr(reply, call.content) ])
    IN  /\ call \in calls /\ call.route = "enhance"
        /\ calls' = calls \ {call}
        /\ UNCHANGED << now, nextId, assigned, sockets, trace, timers, hook, chat >>
        /\ IF reply.kind \in {"reject", "nochoices"} \/ res.threw
           THEN /\ ret' = Generated(op, call.id, 500, Undefined, reply)
                /\ UNCHANGED storage
           ELSE /\ storage' = res.st
                /\ ret' = Generated(op, call.id, 200, MapGet(res.st.notes, call.id), reply)

\* The three generation routes, among the requests that write notes.
NextGenerate ==
    \/ Tick
    \/ \E i \in NoteBodies : CreateNote(i)
    \/ \E id \in Ids, b \in NoteContentUpdates : PutNote(id, b)
    \/ \E id \in Ids : DeleteNote(id)
    \/ \E b \in GenerateBodies : PostFlashcardsGenerate(b)
    \/ \E call \in calls, reply \in Replies : FlashcardsGenerated(call, reply)
    \/ \E b \in QuizGenerateBodies : PostQuizzesGenerate(b)
    \/ \E call \in calls, reply \in Replies : QuizGenerated(call, reply)
    \/ \E id \in Ids : PostNoteEnhance(id)
    \/ \E call \in calls, reply \in Replies : NoteEnhanced(call, reply)

SpecGenerate == Init /\ [][NextGenerate]_vars

\* ------------------------------------------------- the client's useWebSocket
\* (UseWebSocket, above, is the hook's state at its first render.)  hook.socks are the WebSocket objects the hook constructed, in order; a ref
\* is the index of one of them, or 0 for null.  Each socket keeps who
\* constructed it (by), whether its close event can only be unclean (dirty:
\* the connection failed, or close() came before it was established), and the
\* wasClean of its close event once it is CLOSED.
\* hook.timeouts are the pending setTimeout callbacks, named by the socket whose
\* onclose scheduled them; hook.cleared those that clearTimeout cancelled.
serverVars == << storage, now, nextId, assigned, ret, sockets, calls, trace, timers >>

\* setConnectionStatus: a state setter does nothing once the component is gone.
setConnectionStatus(h, status) ==
    IF h.mounted THEN [ h EXCEPT !.connectionStatus = status ] ELSE h

\* connect(): new WebSocket(wsUrl), socketRef.current = ws, the handlers, and
\* setConnectionStatus("Connecting").
connect(h, by) ==
    setConnectionStatus(
        [ h EXCEPT !.socks = Append(@, [readyState |-> "CONNECTING", by |-> by, dirty |-> FALSE,
                                           wasClean |-> FALSE]),
                   !.socketRef = Len(h.socks) + 1 ],
        "Connecting")

\* if (reconnectTimeoutRef.current) clearTimeout(reconnectTimeoutRef.current)
clearReconnectTimeout(h) ==
    [ h EXCEPT !.timeouts = @ \ {h.reconnectTimeoutRef},
               !.cleared = @ \cup (h.timeouts \cap {h.reconnectTimeoutRef}) ]

\* ws.close(1000, ...): nothing on a socket closing or closed; a socket not yet
\* established can only close uncleanly.
close(h, id) ==
    IF h.socks[id].readyState \in {"CLOSING", "CLOSED"} THEN h
    ELSE [ h EXCEPT !.socks[id].readyState = "CLOSING",
                    !.socks[id].dirty = (h.socks[id].readyState = "CONNECTING") ]

\* !socketRef.current || socketRef.current.readyState === WebSocket.CLOSED
NoSocket(h) == h.socketRef = 0 \/ h.socks[h.socketRef].readyState = "CLOSED"

\* if (socketRef.current && socketRef.current.readyState === WebSocket.OPEN):
\* the test of sendMessage, which sends and returns true when it holds.
CanSend(h) == h.socketRef # 0 /\ h.socks[h.socketRef].readyState = "OPEN"

\* A connect that would construct more than MaxSockets sockets is not taken.
CanConnect == Len(hook.socks) < MaxSockets

\* The "connect on mount" effect, with the shouldReconnect the caller passes.
Mount(shouldReconnect) ==
    /\ ~hook.mounted /\ hook.socks = << >>
    /\ hook' = connect([ hook EXCEPT !.mounted = TRUE, !.shouldReconnect = shouldReconnect ],
                       "mount")
    /\ UNCHANGED << serverVars, chat >>

\* The cleanup of the two effects: the timeout is cleared, the socket closed,
\* the visibilitychange listener removed.
Unmount ==
    /\ hook.mounted
    /\ hook' = LET h == clearReconnectTimeout(hook)
               IN  [ (IF h.socketRef # 0 THEN close(h, h.socketRef) ELSE h)
                     EXCEPT !.mounted = FALSE ]
    /\ UNCHANGED << serverVars, chat >>

\* ws.onopen
SocketOpen(id) ==
    /\ hook.socks[id].readyState = "CONNECTING"
    /\ hook' = setConnectionStatus([ hook EXCEPT !.socks[id].readyState = "OPEN" ], "Open")
    /\ UNCHANGED << serverVars, chat >>

\* ws.onerror: the connection fails; the close event follows.
SocketError(id) ==
    /\ hook.socks[id].readyState \in {"CONNECTING", "OPEN"}
    /\ hook' = setConnectionStatus(
                   [ hook EXCEPT !.socks[id].readyState = "CLOSING", !.socks[id].dirty = TRUE ],
                   "Closed")
    /\ UNCHANGED << serverVars, chat >>

\* An onclose that schedules the reconnect whatever event.wasClean is.
oncloseAlways(h, id, wasClean) ==
    LET closed == setConnectionStatus([ h EXCEPT !.socks[id].readyState = "CLOSED",
                                                 !.socks[id].wasClean = wasClean,
                                                 !.socketRef = 0 ], "Closed")
    IN  IF h.shouldReconnect
        THEN [ closed EXCEPT !.timeouts = @ \cup {id}, !.reconnectTimeoutRef = id ]
        ELSE closed
\* ws.onclose: status Closed, socketRef.current = null, and the reconnect
\* timeout if (shouldReconnect && !event.wasClean).
onclose(h, id, wasClean) ==
    LET closed == setConnectionStatus([ h EXCEPT !.socks[id].readyState = "CLOSED",
                                                 !.socks[id].wasClean = wasClean,
                                                 !.socketRef = 0 ], "Closed")
    IN  IF h.shouldReconnect /\ ~wasClean
        THEN [ closed EXCEPT !.timeouts = @ \cup {id}, !.reconnectTimeoutRef = id ]
        ELSE closed

\* The close event of a socket: clean only if the connection was established
\* and did not fail.
SocketClose(id, wasClean) ==
    /\ hook.socks[id].readyState # "CLOSED"
    /\ wasClean => hook.socks[id].readyState \in {"OPEN", "CLOSING"} /\ ~hook.socks[id].dirty
    /\ hook' = onclose(hook, id, wasClean)
    /\ UNCHANGED << serverVars, chat >>

\* The reconnect timeout's callback.
ReconnectTimeout(t) ==
    /\ t \in hook.timeouts
    /\ NoSocket(hook) => CanConnect
    /\ hook' = LET h == [ hook EXCEPT !.timeouts = @ \ {t} ]
               IN  IF NoSocket(h) THEN connect(h, "timeout") ELSE h
    /\ UNCHANGED << serverVars, chat >>

\* The connect and disconnect the hook returns to its caller.
HookConnect ==
    /\ hook.mounted /\ CanConnect
    /\ hook' = connect(hook, "caller")
    /\ UNCHANGED << serverVars, chat >>
HookDisconnect ==
    /\ hook.mounted
    /\ hook' = LET h == clearReconnectTimeout(hook)
               IN  IF h.socketRef # 0 /\ h.socks[h.socketRef].readyState = "OPEN"
                   THEN close(setConnectionStatus(h, "Closing"), h.socketRef)
                   ELSE h
    /\ UNCHANGED << serverVars, chat >>

\* handleVisibilityChange, when the page is hidden and when it is shown again.
Hide ==
    /\ hook.mounted /\ ~hook.hidden
    /\ hook' = clearReconnectTimeout([ hook EXCEPT !.hidden = TRUE ])
    /\ UNCHANGED << serverVars, chat >>
Show ==
    /\ hook.mounted /\ hook.hidden
    /\ hook.shouldReconnect /\ NoSocket(hook) => CanConnect
    /\ hook' = LET h == [ hook EXCEPT !.hidden = FALSE ]
               IN  IF h.shouldReconnect /\ NoSocket(h) THEN connect(h, "visibility") ELSE h
    /\ UNCHANGED << serverVars, chat >>

SockIds == 1..MaxSockets

NextHook ==
    \/ \E b \in BOOLEAN : Mount(b)
    \/ Unmount
    \/ \E id \in DOMAIN hook.socks : SocketOpen(id)
    \/ \E id \in DOMAIN hook.socks : SocketError(id)
    \/ \E id \in DOMAIN hook.socks, wasClean \in BOOLEAN : SocketClose(id, wasClean)
    \/ \E t \in SockIds : ReconnectTimeout(t)
    \/ HookConnect
    \/ HookDisconnect
    \/ Hide
    \/ Show

\* The browser runs a timeout's callback once its delay has passed.
SpecHook == Init /\ [][NextHook]_vars /\ \A t \in SockIds : WF_vars(ReconnectTimeout(t))

\* ------------------------------------------- the client's ChatInterface
\* ChatInterface calls useWebSocket() with no props; its socket is the hook's
\* socket 1 and the server's connection 1.  No socket closes here.
MaxSubmits == 3

\* What the user types: a text, or white space only.
Texts == {"hello", " "}
\* message.trim(), on the texts of the model.
Trim(text) == IF text = " " THEN "" ELSE text
\* content.slice(0, 50) + (content.length > 50 ? "..." : ""): the texts of the
\* model are shorter than 50 characters.
Title(content) == content

\* The frame handleSendMessage hands to sendMessage, as JSON.stringify and then
\* the server's JSON.parse leave it.
chatMessage(conversationId, content) ==
    [ kind |-> "object", type |-> "chat_message", conversationId |-> conversationId,
      content |-> content, model |-> "gpt-5" ]

\* JSON.parse(lastMessage.data) of a frame the relay sent.
FrameOf(ev) ==
    CASE ev.x = "typing:true" -> [ type |-> "typing", isTyping |-> TRUE ]
      [] ev.x = "typing:false" -> [ type |-> "typing", isTyping |-> FALSE ]
      [] ev.x = "message" -> [ type |-> "message", isTyping |-> Undefined ]
      [] ev.x = "error" -> [ type |-> "error", isTyping |-> Undefined ]

\* setCurrentConversationId: the lastMessage effect has currentConversationId
\* among its dependencies and runs again when it changes.
setCurrentConversationId(ch, id) ==
    [ ch EXCEPT !.currentConversationId = id,
                !.effect = @ \/ (id # ch.currentConversationId) ]

\* The server accepts the connection of the hook's socket, and the socket's
\* open event follows.
Accept(c) ==
    /\ c \in DOMAIN hook.socks
    /\ Connect(c)
Established(id) ==
    /\ id \in Conns /\ sockets[id] = "open"
    /\ SocketOpen(id)

\* ChatInput: the textarea's onChange.
SetMessage(text) ==
    /\ hook.mounted
    /\ Len(chat.submitted) < MaxSubmits
    /\ chat.message # text
    /\ chat' = [ chat EXCEPT !.message = text ]
    /\ UNCHANGED << serverVars, hook >>

\* The number of conversations created so far; a submission that would create
\* more than MaxIds conversations is not taken.
Created == Cardinality({ i \in 1..Len(assigned) : assigned[i].type = "conversations" })

\* ChatInput.handleSubmit and the ChatInterface.handleSendMessage it calls: a
\* message that is empty once trimmed does nothing; with no conversation the
\* POST /api/conversations is started and handleSendMessage returns when it
\* is answered; with one, the frame is sent if connectionStatus is "Open" (and,
\* in sendMessage, the socket is open).  Then the textarea is cleared.
HandleSubmit ==
    LET content == Trim(chat.message)
        entry == [ content |-> content, conversationId |-> chat.currentConversationId,
                   sent |-> Len(chat.sent) ]
        cleared == [ chat EXCEPT !.message = "", !.submitted = Append(@, entry) ]
    IN  /\ hook.mounted
        /\ Len(chat.submitted) < MaxSubmits
        /\ UNCHANGED << serverVars, hook >>
        /\ IF content = "" THEN UNCHANGED chat
           ELSE IF chat.currentConversationId = Null
           THEN /\ Created + Len(chat.creating) < MaxIds
                /\ chat' = [ cleared EXCEPT !.creating = Append(@, Title(content)) ]
           ELSE IF hook.connectionStatus = "Open" /\ CanSend(hook)
           THEN chat' = [ cleared EXCEPT
                            !.sent = Append(@, chatMessage(chat.currentConversationId, content)) ]
           ELSE chat' = cleared

\* app.post("/api/conversations") answers request n, and the mutation's
\* onSuccess selects the conversation created.
PostConversation(n) ==
    LET op == "POST /api/conversations"
        st == createConversation(storage, randomUUID,
                  [ userId |-> DEFAULT_USER_ID, title |-> chat.creating[n], model |-> "gpt-5" ])
    IN  /\ n \in DOMAIN chat.creating
        /\ storage' = st
        /\ nextId' = nextId + 1
        /\ assigned' = Append(assigned, [type |-> "conversations", id |-> randomUUID])
        /\ ret' = Http(op, randomUUID, 200, MapGet(st.conversations, randomUUID))
        /\ chat' = setCurrentConversationId(
                       [ chat EXCEPT !.creating =
                           SubSeq(@, 1, n - 1) \o SubSeq(@, n + 1, Len(@)) ],
                       randomUUID)
        /\ UNCHANGED << now, sockets, calls, trace, timers, hook >>

\* ChatInterface.handleNewChat
HandleNewChat ==
    /\ hook.mounted
    /\ chat.currentConversationId # Null
    /\ chat' = setCurrentConversationId(chat, Null)
    /\ UNCHANGED << serverVars, hook >>

\* The next frame the client sent reaches the server's message listener.
Deliver ==
    /\ Cardinality(Frames) < Len(chat.sent)
    /\ Receive(1, chat.sent[Cardinality(Frames) + 1])

\* The places in the relay's history of the frames delivered to the client and
\* not yet seen by it.
Unread == { i \in (chat.read + 1)..Len(trace) :
              trace[i].e = "send" /\ trace[i].outcome = "delivered" }

\* ws.onmessage: setLastMessage(event), for the next frame delivered.  The
\* effect runs after the render this causes; an event that arrives before it
\* has run replaces lastMessage.
OnMessage ==
    /\ hook.mounted
    /\ Unread # {}
    /\ LET i == CHOOSE j \in Unread : \A k \in Unread : j <= k
       IN  chat' = [ chat EXCEPT !.read = i, !.lastMessage = i, !.effect = TRUE ]
    /\ UNCHANGED << serverVars, hook >>

\* The lastMessage effect of ChatInterface: typing frames set isTyping, a
\* message frame invalidates the messages query, any other frame does nothing.
LastMessageEffect ==
    /\ hook.mounted
    /\ chat.effect
    /\ chat' = IF chat.lastMessage # 0 /\ FrameOf(trace[chat.lastMessage]).type = "typing"
               THEN [ chat EXCEPT !.effect = FALSE,
                                  !.isTyping = FrameOf(trace[chat.lastMessage]).isTyping ]
               ELSE [ chat EXCEPT !.effect = FALSE ]
    /\ UNCHANGED << serverVars, hook >>

\* The provider's call of a frame settles, one way or the other.
ProviderSettles ==
    \E call \in calls :
        \/ \E text \in Answers : ProviderResolve(call, text)
        \/ ProviderReject(call)

NextChat ==
    \/ Mount(TRUE)
    \/ \E c \in Conns : Accept(c)
    \/ \E id \in DOMAIN hook.socks : Established(id)
    \/ \E text \in Texts : SetMessage(text)
    \/ HandleSubmit
    \/ \E n \in 1..MaxSubmits : PostConversation(n)
    \/ HandleNewChat
    \/ Deliver
    \/ ProviderSettles
    \/ OnMessage
    \/ LastMessageEffect

\* What the user does may never happen; the network, the server, the provider
\* and React take every step that stays possible.
SpecChat ==
    /\ Init /\ [][NextChat]_vars
    /\ WF_vars(\E c \in Conns : Accept(c))
    /\ WF_vars(\E id \in Conns : Established(id))
    /\ WF_vars(\E n \in 1..MaxSubmits : PostConversation(n))
    /\ WF_vars(Deliver)
    /\ WF_vars(ProviderSettles)
    /\ WF_vars(OnMessage)
    /\ WF_vars(LastMessageEffect)
\* ------------------------------------------------------------------ claims
Range(s) == { s[i] : i \in 1..Len(s) }
Count(x, s) == Cardinality({ i \in 1..Len(s) : s[i] = x })
AssignedIds(type) == { assigned[i].id : i \in { j \in 1..Len(assigned) : assigned[j].type = type } }
Removed(type) == AssignedIds(type) \ MapKeys(storage[type])

\* The step is one of the operations ops (every operation sets ret and leaves the
\* clock alone; the passing of time leaves ret alone).
Ran(ops) == now' = now /\ ret'.op \in ops

\* C1: the identifiers the create operations assigned, over the store's whole
\* lifetime (records since deleted included), are pairwise different within an
\* entity type and differ from the seeded user's; every Map holds one entry
\* per key, and each key is an identifier assigned to a record of that type.
C1_AssignedIdsUnique ==
    /\ \A i, j \in 1..Len(assigned) :
         (i # j /\ assigned[i].type = assigned[j].type) => assigned[i].id # assigned[j].id
    /\ DEFAULT_USER_ID \notin AssignedIds("users")
    /\ \A t \in EntityTypes :
         /\ \A i, j \in 1..Len(storage[t]) : i # j => storage[t][i].key # storage[t][j].key
         /\ MapKeys(storage[t]) \subseteq
              AssignedIds(t) \cup (IF t = "users" THEN {DEFAULT_USER_ID} ELSE {})
\* Two records of one type were created, the second after the first was deleted.
C1_Witness ==
    /\ Len(assigned) >= 2
    /\ assigned[1].type = assigned[2].type
    /\ assigned[1].id \in Removed(assigned[1].type)
    /\ assigned[2].id \in MapKeys(storage[assigned[2].type])

Stamped == { "conversations", "flashcardSets", "notes" }
Updatable == { "conversations", "flashcardSets", "notes", "flashcards", "videoGenerations" }
\* The operations that update a record of each type.
OpsOn(type) ==
    CASE type = "conversations" -> { "updateConversation" }
      [] type = "flashcardSets" -> { "updateFlashcardSet" }
      [] type = "notes" -> { "updateNote", "PUT /api/notes/:id" }
      [] type = "flashcards" -> { "updateFlashcard", "PUT /api/flashcards/:id" }
      [] type = "videoGenerations" -> { "updateVideoGeneration" }
PutOps == { "PUT /api/notes/:id", "PUT /api/flashcards/:id" }

\* C2 (as claimed): an update of a present record, whatever the payload, leaves
\* the stored record's id and createdAt as they were, and advances updatedAt
\* where the entity has one.  "Advances" is read here in its weakest sense (the
\* instant is the clock's and does not go back), so that a violation is one of
\* the claim under either reading.
C2_UpdateKeepsIdentity ==
    [][ \A t \in Updatable :
          (Ran(OpsOn(t)) /\ ret'.arg \in MapKeys(storage[t])) =>
            LET old == MapGet(storage[t], ret'.arg)
                new == MapGet(storage'[t], ret'.arg)
            IN  /\ new.id = old.id
                /\ new.createdAt = old.createdAt
                /\ t \in Stamped => (new.updatedAt = now /\ new.updatedAt >= old.updatedAt) ]_vars

Children == [ conversations |-> "messages", flashcardSets |-> "flashcards",
              quizzes |-> "quizAttempts" ]
ParentOf(type, child) ==
    CASE type = "conversations" -> child.conversationId
      [] type = "flashcardSets" -> child.setId
      [] type = "quizzes" -> child.quizId
DeleteOp == [ conversations |-> "deleteConversation", flashcardSets |-> "deleteFlashcardSet",
              quizzes |-> "deleteQuiz" ]

\* C3: deleting a conversation, flashcard set or quiz by id leaves no child
\* whose parent field equals id; the children of other parents stay, unchanged
\* and in their order; of the parents only the entry with key id goes; every
\* other Map is as it was.
C3_DeleteCascades ==
    [][ \A t \in DOMAIN Children :
          Ran({DeleteOp[t]}) =>
            LET c == Children[t]
                id == ret'.arg
            IN  /\ \A e \in Range(storage'[c]) : ParentOf(t, e.val) # id
                /\ \A e \in Range(storage[c]) :
                     ParentOf(t, e.val) # id => Count(e, storage'[c]) = Count(e, storage[c])
                /\ Len(storage'[c]) =
                     Cardinality({ i \in 1..Len(storage[c]) : ParentOf(t, storage[c][i].val) # id })
                /\ \A e \in Range(storage[t]) :
                     e.key # id => Count(e, storage'[t]) = Count(e, storage[t])
                /\ \A e \in Range(storage'[t]) : e.key # id /\ e \in Range(storage[t])
                /\ \A o \in EntityTypes \ {t, c} : storage'[o] = storage[o] ]_vars
\* deleteConversation has just removed a message (no other method removes one)
\* and a record of another type is still stored.
C3_Witness ==
    /\ ret.op = "deleteConversation"
    /\ Removed("messages") # {}
    /\ \E t \in EntityTypes \ {"users", "conversations", "messages"} : Len(storage[t]) > 0

ListByOwner(type, userId) ==
    CASE type = "conversations" -> getUserConversations(storage, userId)
      [] type = "flashcardSets" -> getUserFlashcardSets(storage, userId)
      [] type = "notes" -> getUserNotes(storage, userId)
      [] type = "quizzes" -> getUserQuizzes(storage, userId)
      [] type = "videoGenerations" -> getUserVideoGenerations(storage, userId)
Owned == { "conversations", "flashcardSets", "notes", "quizzes", "videoGenerations" }
SortInstant(type, r) == IF type \in Stamped THEN r.updatedAt ELSE r.createdAt

\* C4: each list-by-owner method returns the stored records whose userId is
\* the requested user, each once and no other, ordered so that the updated
\* instant (the creation instant for quizzes and video generations, which have
\* no updated instant) never increases along the list.
C4_ListByOwner ==
    \A t \in Owned : \A u \in UserIds :
        LET res == ListByOwner(t, u)
            all == MapValues(storage[t])
        IN  /\ \A r \in Range(res) : r.userId = u
            /\ \A r \in Range(all) : r.userId = u => Count(r, res) = Count(r, all)
            /\ \A r \in Range(res) : r \in Range(all)
            /\ \A i, j \in 1..Len(res) :
                 i < j => SortInstant(t, res[i]) >= SortInstant(t, res[j])
\* Two notes of one owner, listed in the reverse of their insertion order.
C4_Witness ==
    \E u \in UserIds :
        LET res == getUserNotes(storage, u) IN
        /\ Len(res) = 2
        /\ res[1].updatedAt > res[2].updatedAt
        /\ res[1] = storage.notes[2].val

\* C9: an update of an identifier that is not in its Map throws, and the whole
\* storage is as before; a PUT on such an identifier is answered 400.
C9_UpdateAbsent ==
    [][ \A t \in Updatable :
          (Ran(OpsOn(t)) /\ ret'.arg \notin MapKeys(storage[t])) =>
            /\ ret'.status = "throw"
            /\ storage' = storage
            /\ ret'.op \in PutOps => ret'.http = 400 ]_vars
\* A PUT on an absent flashcard was answered 400 while other flashcards exist.
C9_Witness ==
    /\ ret.op = "PUT /api/flashcards/:id"
    /\ ret.http = 400
    /\ ret.arg \notin MapKeys(storage.flashcards)
    /\ Len(storage.flashcards) > 0

GetOp == [ users |-> "getUser", conversations |-> "getConversation",
           flashcardSets |-> "getFlashcardSet", notes |-> "getNote", quizzes |-> "getQuiz",
           videoGenerations |-> "getVideoGeneration" ]

\* C10: fetch-by-id of an identifier that is not in its Map (never created, or
\* deleted) returns undefined without throwing, and the storage is as before.
C10_FetchAbsent ==
    [][ \A t \in DOMAIN GetOp :
          (Ran({GetOp[t]}) /\ ret'.arg \notin MapKeys(storage[t])) =>
            /\ ret'.status = "ok"
            /\ ret'.value = Undefined
            /\ storage' = storage ]_vars
\* getQuiz returned undefined for a quiz that was deleted, another one is stored.
C10_Witness ==
    /\ ret.op = "getQuiz"
    /\ ret.value = Undefined
    /\ ret.arg \in Removed("quizzes")
    /\ Len(storage.quizzes) > 0

\* The positions at which the answer equals the question's correctAnswer.
Matching(questions, answers) ==
    { i \in 1..Len(answers) : answers[i] = questions[i].correctAnswer }
AttemptPosted == ret.op = "POST /api/quizzes/:id/attempts" /\ ret.http = 200

\* C8: an attempt submitted to a quiz of N questions with N answers, of which
\* exactly K equal their question's correctAnswer, is stored and returned with
\* score K and totalQuestions N, for the quiz and with the answers submitted.
C8_QuizScoring ==
    AttemptPosted =>
        LET attempt == ret.value
            quiz == getQuiz(storage, attempt.quizId)
        IN  /\ MapGet(storage.quizAttempts, ret.arg) = attempt
            /\ quiz # Undefined
            /\ Len(attempt.answers) = Len(quiz.questions) =>
                   /\ attempt.score = Cardinality(Matching(quiz.questions, attempt.answers))
                   /\ attempt.totalQuestions = Len(quiz.questions)

\* Correct answers [0,1,2], submitted [0,1,1]: score 2, total 3.
C8_Witness ==
    /\ AttemptPosted
    /\ ret.value.answers = << 0, 1, 1 >>
    /\ getQuiz(storage, ret.value.quizId).questions =
           << [correctAnswer |-> 0], [correctAnswer |-> 1], [correctAnswer |-> 2] >>
    /\ ret.value.score = 2
    /\ ret.value.totalQuestions = 3

VideoPosted == ret.op = "POST /api/video-generations" /\ ret.http = 200
Completed(v) ==
    /\ v.status = "completed"
    /\ v.videoUrl # Null
    /\ v.thumbnailUrl # Null
    /\ v.completedAt # Null

VideoCompleted(id) ==
    MapHas(storage.videoGenerations, id) /\ Completed(getVideoGeneration(storage, id))

\* C7: the record a creation answers with is pending with null videoUrl,
\* thumbnailUrl and completedAt; and every video created is, from some moment
\* on, fetched as completed with both URLs and a completion instant, whatever
\* requests come in between.
C7_VideoLifecycle ==
    /\ [](VideoPosted =>
            /\ ret.value.status = "pending"
            /\ ret.value.videoUrl = Null
            /\ ret.value.thumbnailUrl = Null
            /\ ret.value.completedAt = Null
            /\ getVideoGeneration(storage, ret.arg) = ret.value)
    /\ \A id \in 1..MaxIds :
          MapHas(storage.videoGenerations, id)
              ~> [](VideoCompleted(id))

\* A fetch answers with a completed video while a later one is still pending.
C7_Witness ==
    /\ ret.op = "GET /api/video-generations/:id"
    /\ ret.http = 200
    /\ Completed(ret.value)
    /\ ret.value.completedAt > ret.value.createdAt
    /\ \E v \in Range(MapValues(storage.videoGenerations)) : v.status = "pending"

\* The relay's history, by frame.
DataOf(f) == trace[CHOOSE i \in 1..Len(trace) : trace[i].e = "receive" /\ trace[i].f = f].data
EventsAt(f, e, x) ==
    { i \in 1..Len(trace) : trace[i].f = f /\ trace[i].e = e /\ trace[i].x = x }
Ignored(data) == data.kind # "object" \/ data.type # "chat_message"
ChatFrames == { f \in Frames : ~Ignored(DataOf(f)) }
Pending(f) == \E call \in calls : call.f = f
Rejected(f) == \E i \in 1..Len(trace) : trace[i].f = f /\ trace[i].e = "reject"
\* The Message that event i persisted is stored with this role, in the frame's
\* conversation.
StoredBy(i, role, data) ==
    /\ MapHas(storage.messages, trace[i].id)
    /\ MapGet(storage.messages, trace[i].id).role = role
    /\ MapGet(storage.messages, trace[i].id).conversationId = data.conversationId

\* C5 as stated: every chat_message frame that names a model and whose
\* processing has ended has left exactly one user-role and exactly one
\* assistant-role Message.
C5_OneUserOneAssistant ==
    \A f \in ChatFrames :
        DataOf(f).model # NoModel /\ ~Pending(f) =>
            /\ Cardinality(EventsAt(f, "persist", "user")) = 1
            /\ Cardinality(EventsAt(f, "persist", "assistant")) = 1

\* C5, amended: a chat_message frame leaves exactly one user-role Message in its
\* conversation, with the frame's content, and then one typing:true frame; it
\* leaves at most one assistant-role Message, in that conversation and after
\* typing:true; once its processing has ended it has left that Message exactly
\* when the frame names a model and the provider call, if one was made, did
\* not fail.
C5_OneUserAssistantIfAnswered ==
    \A f \in ChatFrames :
        LET data == DataOf(f)
            users == EventsAt(f, "persist", "user")
            typing == EventsAt(f, "send", "typing:true")
            assistants == EventsAt(f, "persist", "assistant")
        IN  /\ Cardinality(users) = 1
            /\ \A i \in users :
                  /\ StoredBy(i, "user", data)
                  /\ MapGet(storage.messages, trace[i].id).content = data.content
            /\ Cardinality(typing) = 1
            /\ \A i \in users, j \in typing : i < j
            /\ Cardinality(assistants) <= 1
            /\ \A j \in typing, k \in assistants : j < k /\ StoredBy(k, "assistant", data)
            /\ Pending(f) => assistants = {}
            /\ ~Pending(f) =>
                  (assistants # {} <=> data.model # NoModel /\ ~Rejected(f))

\* A gpt-5 frame answered by the provider next to one whose provider call failed.
C5_Witness ==
    \E f, g \in ChatFrames :
        /\ DataOf(f).model = "gpt-5" /\ DataOf(g).model = "gpt-5"
        /\ ~Pending(f) /\ ~Pending(g)
        /\ ~Rejected(f) /\ Rejected(g)
        /\ Cardinality(EventsAt(f, "persist", "assistant")) = 1
        /\ Cardinality(EventsAt(g, "persist", "assistant")) = 0

\* C6: a frame that is not JSON, or is JSON but not an object of type
\* chat_message, leaves nothing but its reception in the relay's history (no
\* Message persisted, no frame sent, no provider called), and the step that
\* receives it leaves the record store as it was.
C6_IgnoredFrame ==
    /\ [](\A f \in Frames : Ignored(DataOf(f)) =>
             \A i \in 1..Len(trace) : trace[i].f = f => trace[i].e = "receive")
    /\ [][ ( /\ Len(trace') > Len(trace)
             /\ trace'[Len(trace) + 1].e = "receive"
             /\ Ignored(trace'[Len(trace) + 1].data) )
           => /\ storage' = storage
              /\ nextId' = nextId
              /\ assigned' = assigned
              /\ calls' = calls
              /\ Len(trace') = Len(trace) + 1 ]_vars

\* Text that is not JSON, and an object of type typing, received after a
\* conversation was created.
C6_Witness ==
    /\ Len(storage.conversations) > 0
    /\ \E f, g \in Frames :
          /\ DataOf(f).kind = "SyntaxError"
          /\ DataOf(g).kind = "object" /\ DataOf(g).type = "typing"
    /\ Len(trace) = 2
    /\ storage.messages = << >>

\* The five delete methods, by the Map of the record they delete.
Deletable == {"conversations", "flashcardSets", "flashcards", "notes", "quizzes"}
DeleteOf(type, st, id) ==
    CASE type = "conversations" -> deleteConversation(st, id)
      [] type = "flashcardSets" -> deleteFlashcardSet(st, id)
      [] type = "flashcards" -> deleteFlashcard(st, id)
      [] type = "notes" -> deleteNote(st, id)
      [] type = "quizzes" -> deleteQuiz(st, id)

\* C11: in every store state and for each of the five delete methods, deleting
\* an identifier twice leaves the store that deleting it once leaves, and
\* deleting an identifier that is not in the Map leaves the store as it is.
C11_DeleteIdempotent ==
    \A type \in Deletable, id \in Ids :
        /\ DeleteOf(type, DeleteOf(type, storage, id), id) = DeleteOf(type, storage, id)
        /\ ~MapHas(storage[type], id) => DeleteOf(type, storage, id) = storage

\* C12: in the list of an owner's records, those with the same sort instant are
\* in the order of their entries in the Map, which is the order of their
\* insertion (an update leaves a record's entry where it is).
C12_TiesByInsertion ==
    \A t \in Owned : \A u \in UserIds :
        LET res == ListByOwner(t, u)
            own == SelectSeq(MapValues(storage[t]), LAMBDA r : r.userId = u)
        IN  \A r \in Range(own) :
                SelectSeq(res, LAMBDA x : SortInstant(t, x) = SortInstant(t, r))
                    = SelectSeq(own, LAMBDA x : SortInstant(t, x) = SortInstant(t, r))
\* Two notes with the same updated instant, the first inserted updated after
\* its creation and still listed first.
C12_Witness ==
    \E u \in UserIds :
        LET res == getUserNotes(storage, u) IN
        /\ Len(res) = 2
        /\ res[1].updatedAt = res[2].updatedAt
        /\ res[1].createdAt < res[1].updatedAt
        /\ res[1] = storage.notes[1].val
        /\ res[2] = storage.notes[2].val
        /\ res[1] # res[2]

\* C13: while the provider call of a frame is pending, nothing has been done
\* for a later frame of the same connection beyond receiving it; and the reply
\* frames (message or error) of a connection leave in the order of their frames.
C13_SequentialFrames ==
    /\ \A call \in calls : \A i \in 1..Len(trace) :
          trace[i].c = call.c /\ trace[i].f > call.f => trace[i].e = "receive"
    /\ \A i, j \in 1..Len(trace) :
          ( /\ i < j
            /\ trace[i].c = trace[j].c
            /\ trace[i].e = "send" /\ trace[j].e = "send"
            /\ trace[i].x \in {"message", "error"} /\ trace[j].x \in {"message", "error"} )
          => trace[i].f <= trace[j].f

\* C14: every stored Message, Flashcard and QuizAttempt names a parent
\* (Conversation, FlashcardSet, Quiz) that is in the store.
C14_NoOrphans ==
    \A t \in DOMAIN Children :
        \A e \in Range(storage[Children[t]]) : MapHas(storage[t], ParentOf(t, e.val))

\* The events a step appends to the relay's history.
NewEvents == { trace'[i] : i \in (Len(trace) + 1)..Len(trace') }
\* The step settles this call with an answer of the provider.
Resolves(call) ==
    /\ call \in calls /\ call \notin calls'
    /\ \E ev \in NewEvents : ev.e = "resolve" /\ ev.f = call.f

\* C15: the closing of a connection leaves its pending provider calls pending
\* and the store as it is; when the answer of a call arrives on a closed
\* connection, the assistant Message is appended to the messages of the call's
\* conversation and nothing else in the store changes, no frame is delivered,
\* and no error frame is sent.
C15_CloseDuringCall ==
    [][ /\ \A c \in Conns :
              sockets[c] = "open" /\ sockets'[c] = "closed" =>
                  calls' = calls /\ storage' = storage
        /\ \A call \in calls :
              Resolves(call) /\ sockets[call.c] = "closed" =>
                  /\ \E m \in Range(MapValues(storage'.messages)) :
                        /\ storage'.messages = Append(storage.messages, [key |-> m.id, val |-> m])
                        /\ m.role = "assistant"
                        /\ m.conversationId = call.conversationId
                  /\ \A t \in EntityTypes \ {"messages"} : storage'[t] = storage[t]
                  /\ \A ev \in NewEvents :
                        ev.e = "send" => ev.outcome # "delivered" /\ ev.x # "error" ]_vars

\* The connection is closed and a gpt-5 frame of it has its assistant Message,
\* persisted by an answer whose frames were not delivered.
C15_Witness ==
    \E f \in ChatFrames :
        /\ \A c \in Conns : sockets[c] = "closed"
        /\ ~Pending(f) /\ ~Rejected(f)
        /\ DataOf(f).model = "gpt-5"
        /\ \E i \in EventsAt(f, "persist", "assistant") : MapHas(storage.messages, trace[i].id)
        /\ \E i \in EventsAt(f, "send", "message") : trace[i].outcome = "dropped"

\* The step settles this call with a failure of the provider.
Rejects(call) ==
    /\ call \in calls /\ call \notin calls'
    /\ \E ev \in NewEvents : ev.e = "reject" /\ ev.f = call.f

\* C16: a frame whose provider call failed has no assistant Message, no
\* typing:false and no message frame, its user Message is in the store, and it
\* has at most one error frame, whose message is "Failed to get AI response: "
\* followed by the failure's details; the step in which the call fails on an
\* open connection delivers exactly that one frame and leaves the store as it is.
C16_ProviderFailure ==
    /\ [](\A f \in ChatFrames : Rejected(f) =>
             /\ EventsAt(f, "persist", "assistant") = {}
             /\ EventsAt(f, "send", "typing:false") = {}
             /\ EventsAt(f, "send", "message") = {}
             /\ \E i \in EventsAt(f, "persist", "user") :
                    StoredBy(i, "user", DataOf(f))
             /\ Cardinality(EventsAt(f, "send", "error")) <= 1
             /\ \A i \in EventsAt(f, "send", "error") :
                    trace[i].message = << "Failed to get AI response: ", ProviderErrorMessage >>)
    /\ [][ \A call \in calls :
              Rejects(call) =>
                  /\ storage' = storage
                  /\ sockets[call.c] = "open" =>
                        /\ Len(trace') = Len(trace) + 2
                        /\ trace'[Len(trace')].e = "send"
                        /\ trace'[Len(trace')].x = "error"
                        /\ trace'[Len(trace')].f = call.f
                        /\ trace'[Len(trace')].outcome = "delivered" ]_vars

\* The provider call of a gpt-5 frame failed on the open connection: one user
\* Message, one delivered error frame, and a second frame answered meanwhile.
C16_Witness ==
    \E f, g \in ChatFrames :
        /\ Rejected(f) /\ ~Rejected(g) /\ ~Pending(g)
        /\ DataOf(f).model = "gpt-5"
        /\ \E i \in EventsAt(f, "send", "error") : trace[i].outcome = "delivered"
        /\ Len(storage.messages) = 3

\* What the relay did for frame f, in order: each event's kind and, for a
\* Message persisted or a frame sent, which.
Kind(ev) == IF ev.e \in {"persist", "send"} THEN << ev.e, ev.x >> ELSE << ev.e, "" >>
History(f) ==
    LET es == SelectSeq(trace, LAMBDA ev : ev.f = f) IN [ i \in 1..Len(es) |-> Kind(es[i]) ]
Resolved(f) == \E i \in 1..Len(trace) : trace[i].f = f /\ trace[i].e = "resolve"
SuccessOrder ==
    << << "receive", "" >>, << "persist", "user" >>, << "send", "typing:true" >>,
       << "invoke", "" >>, << "resolve", "" >>, << "persist", "assistant" >>,
       << "send", "typing:false" >>, << "send", "message" >> >>

\* C17: for a frame whose provider call succeeded the relay did, in this order
\* and nothing else: persist the user Message, send typing:true, invoke the
\* provider, persist the assistant Message, send typing:false, send the message
\* frame, which carries the assistant Message persisted; while the call is
\* pending it has done the first three.  The two last sends are missing only
\* when the socket was no longer open; on an open socket the step of the
\* answer delivers both.
C17_EventOrder ==
    /\ [](\A f \in ChatFrames :
             /\ Pending(f) => History(f) = SubSeq(SuccessOrder, 1, 4)
             /\ Resolved(f) =>
                   /\ History(f) \in { SuccessOrder, SubSeq(SuccessOrder, 1, 6) }
                   /\ \A i \in EventsAt(f, "send", "message") :
                         /\ \E k \in EventsAt(f, "persist", "assistant") : trace[k].id = trace[i].id
                         /\ MapGet(storage.messages, trace[i].id).role = "assistant")
    /\ [][ \A call \in calls :
              Resolves(call) /\ sockets[call.c] = "open" =>
                  /\ Len(trace') = Len(trace) + 4
                  /\ \A ev \in NewEvents : ev.e = "send" => ev.outcome = "delivered" ]_vars

\* A claude frame answered on the open connection, all six steps done.
C17_Witness ==
    \E f \in ChatFrames :
        /\ DataOf(f).model = "claude-sonnet-4"
        /\ History(f) = SuccessOrder
        /\ \A i \in EventsAt(f, "send", "message") : trace[i].outcome = "delivered"
        /\ \A c \in Conns : sockets[c] = "open"

\* The provider each model of ChatMessages is to be served by.
ProviderFor == [ m \in {"gpt-5", "claude-sonnet-4", "llama-3"} |->
                   CASE m = "gpt-5" -> "openai"
                     [] m = "claude-sonnet-4" -> "anthropic"
                     [] m = "llama-3" -> "none" ]
Invoked(f) == { trace[i].x : i \in { j \in 1..Len(trace) : trace[j].f = f /\ trace[j].e = "invoke" } }
UnsupportedOrder ==
    << << "receive", "" >>, << "persist", "user" >>, << "send", "typing:true" >>,
       << "persist", "assistant" >>, << "send", "typing:false" >>, << "send", "message" >> >>

\* C18: a frame whose model starts with gpt invokes the OpenAI call and no
\* other, one whose model starts with claude the Anthropic call and no other;
\* for a model with neither prefix no provider is invoked, and the relay
\* persists the user Message, sends typing:true, persists an assistant Message
\* with content "Model not supported", and delivers typing:false and the
\* message frame carrying it, and no error frame.
C18_ProviderByPrefix ==
    \A f \in ChatFrames :
        LET model == DataOf(f).model IN
        model # NoModel =>
            IF ProviderFor[model] # "none"
            THEN Invoked(f) = { ProviderFor[model] }
            ELSE /\ Invoked(f) = {}
                 /\ History(f) = UnsupportedOrder
                 /\ \A i \in EventsAt(f, "persist", "assistant") :
                       /\ StoredBy(i, "assistant", DataOf(f))
                       /\ MapGet(storage.messages, trace[i].id).content = "Model not supported"
                       /\ \E k \in EventsAt(f, "send", "message") : trace[k].id = trace[i].id
                 /\ \A i \in 1..Len(trace) :
                       trace[i].f = f /\ trace[i].e = "send" => trace[i].outcome = "delivered"

\* A llama-3 frame answered with the literal reply, next to a claude frame
\* whose Anthropic call is pending.
C18_Witness ==
    \E f, g \in ChatFrames :
        /\ DataOf(f).model = "llama-3" /\ History(f) = UnsupportedOrder
        /\ DataOf(g).model = "claude-sonnet-4" /\ Invoked(g) = {"anthropic"} /\ Pending(g)

\* The step is the close event of socket id.
Closes(id) == hook.socks[id].readyState # "CLOSED" /\ hook'.socks[id].readyState = "CLOSED"

\* C19: with shouldReconnect, the close event of a socket schedules a reconnect
\* timeout when it is not clean and schedules none when it is clean; and a
\* reconnect timeout pending while the hook has no socket and the page is in the
\* foreground leads to a new connection attempt, unless the page is hidden or
\* the timeout is cleared (disconnect, unmount) first.
C19_Reconnect ==
    /\ [][ \A id \in DOMAIN hook.socks :
              Closes(id) /\ hook.shouldReconnect =>
                  IF hook'.socks[id].wasClean
                  THEN hook'.timeouts = hook.timeouts
                  ELSE id \in hook'.timeouts /\ hook'.reconnectTimeoutRef = id ]_vars
    /\ \A t \in SockIds, n \in 1..(MaxSockets - 1) :
          (t \in hook.timeouts /\ NoSocket(hook) /\ Len(hook.socks) = n /\ ~hook.hidden)
              ~> (Len(hook.socks) > n \/ hook.hidden \/ t \in hook.cleared)

\* The first socket closed uncleanly and the timeout made the second, which
\* closed cleanly: no timeout is pending and none was cleared.
C19_Witness ==
    /\ Len(hook.socks) = 2
    /\ hook.shouldReconnect /\ ~hook.hidden /\ hook.mounted
    /\ hook.socks[1].readyState = "CLOSED" /\ ~hook.socks[1].wasClean
    /\ hook.socks[2].by = "timeout"
    /\ hook.socks[2].readyState = "CLOSED" /\ hook.socks[2].wasClean
    /\ hook.timeouts = {} /\ hook.cleared = {}

\* C20: while the page is hidden the hook constructs no socket of its own
\* accord (by a reconnect timeout), whether the socket closed before or after
\* the page was hidden; and when the page is shown while the hook has no
\* socket, it constructs one.
C20_NoReconnectHidden ==
    [][ /\ ( /\ hook.hidden /\ hook'.hidden
             /\ Len(hook'.socks) > Len(hook.socks) )
           => hook'.socks[Len(hook'.socks)].by = "caller"
        /\ ( /\ hook.mounted /\ hook.shouldReconnect
             /\ hook.hidden /\ ~hook'.hidden /\ NoSocket(hook) )
           => /\ Len(hook'.socks) = Len(hook.socks) + 1
              /\ hook'.socks[Len(hook'.socks)].by = "visibility" ]_vars

\* C22 (as claimed): no two stored User records have the same username, and
\* getUserByUsername returns the only user with the name asked for.
C22_UsernameUnique ==
    /\ \A i, j \in 1..Len(storage.users) :
          i # j => storage.users[i].val.username # storage.users[j].val.username
    /\ \A name \in {"demo", "bob"} :
          LET named == Filter(storage.users, LAMBDA u : u.username = name)
          IN  IF Len(named) = 0 THEN getUserByUsername(storage, name) = Undefined
              ELSE Len(named) = 1 /\ getUserByUsername(storage, name) = named[1]

\* C23 (as claimed): every stored Flashcard has a difficulty in 1..3 and a
\* masteryLevel in 0..100.
C23_FlashcardRanges ==
    \A e \in Range(storage.flashcards) :
        /\ e.val.difficulty \in 1..3
        /\ e.val.masteryLevel \in 0..100

\* C26: createMessage leaves the conversations Map as it is, for every message
\* it can be given in every state; and every step that stores a Message (the
\* user Message and the assistant Message of the relay) leaves every
\* Conversation record, updatedAt included, and the list getUserConversations
\* returns for each user, as they were.
C26_MessageLeavesConversations ==
    /\ [](\A insert \in InsertMessages :
             LET st == createMessage(storage, randomUUID, insert)
             IN  /\ st.conversations = storage.conversations
                 /\ \A u \in UserIds :
                       getUserConversations(st, u) = getUserConversations(storage, u))
    /\ [][ storage'.messages # storage.messages =>
              /\ storage'.conversations = storage.conversations
              /\ \A u \in UserIds :
                    getUserConversations(storage', u) = getUserConversations(storage, u) ]_vars

\* The relay stored the user and the assistant Message of a frame after the
\* frame's conversation was last updated, and that conversation is still listed
\* after a younger one.
C26_Witness ==
    \E f \in ChatFrames :
        LET conv == getConversation(storage, DataOf(f).conversationId)
            stored == EventsAt(f, "persist", "user") \cup EventsAt(f, "persist", "assistant")
        IN  /\ conv # Undefined
            /\ Cardinality(stored) = 2
            /\ \A i \in stored : MapGet(storage.messages, trace[i].id).createdAt > conv.updatedAt
            /\ Len(getUserConversations(storage, conv.userId)) = 2
            /\ getUserConversations(storage, conv.userId)[2] = conv

\* C25: every stored VideoGeneration is pending or completed (never processing
\* or failed), and it is completed exactly when videoUrl, thumbnailUrl and
\* completedAt are all non-null; a completed one stays completed.
C25_StatusTransitions ==
    /\ [](\A e \in Range(storage.videoGenerations) :
             /\ e.val.status \in {"pending", "completed"}
             /\ e.val.status = "completed" <=>
                    ( /\ e.val.videoUrl # Null
                      /\ e.val.thumbnailUrl # Null
                      /\ e.val.completedAt # Null ))
    /\ [][ \A id \in MapKeys(storage.videoGenerations) :
              MapGet(storage.videoGenerations, id).status = "completed" =>
                  /\ MapHas(storage'.videoGenerations, id)
                  /\ MapGet(storage'.videoGenerations, id) = MapGet(storage.videoGenerations, id) ]_vars

\* The timer of the second video has just completed it, after the first one's.
C25_Witness ==
    /\ ret.op = "setTimeout callback"
    /\ ret.arg = 2
    /\ Len(storage.videoGenerations) = 2
    /\ \A e \in Range(storage.videoGenerations) : Completed(e.val)
    /\ timers = {}

\* C30: an attempt posted to a quiz of N questions with an answer array of any
\* length is stored with totalQuestions = N and a score that is the number of
\* positions below N at which the answer equals the correctAnswer, so that
\* 0 <= score <= N and score <= the number of answers; a POST that creates an
\* attempt names a quiz that is in the store, and any other POST leaves the
\* store as it is.
C30_ScoreBounds ==
    /\ [](AttemptPosted =>
            LET attempt == ret.value
                quiz == getQuiz(storage, attempt.quizId)
                N == Len(quiz.questions)
            IN  /\ quiz # Undefined
                /\ MapGet(storage.quizAttempts, ret.arg) = attempt
                /\ attempt.totalQuestions = N
                /\ attempt.score >= 0
                /\ attempt.score <= N
                /\ attempt.score <= Len(attempt.answers)
                /\ attempt.score =
                     Cardinality({ i \in 1..Len(attempt.answers) :
                         i <= N /\ attempt.answers[i] = quiz.questions[i].correctAnswer }))
    /\ [][ Ran({"POST /api/quizzes/:id/attempts"}) =>
              IF ret'.http = 200
              THEN /\ MapHas(storage.quizzes, ret'.value.quizId)
                   /\ Len(storage'.quizAttempts) = Len(storage.quizAttempts) + 1
              ELSE storage' = storage ]_vars

\* Three answers, all 0, posted to a quiz of one question whose correctAnswer
\* is 0: score 1 of 1.
C30_Witness ==
    /\ AttemptPosted
    /\ ret.value.answers = << 0, 0, 0 >>
    /\ getQuiz(storage, ret.value.quizId).questions = << [correctAnswer |-> 0] >>
    /\ ret.value.score = 1
    /\ ret.value.totalQuestions = 1

\* The error frame of frame f was delivered before frame g was received on
\* the same connection.
ErrorBefore(f, g) ==
    \E i \in EventsAt(f, "send", "error") :
        /\ trace[i].outcome = "delivered"
        /\ \E j \in 1..Len(trace) :
              /\ i < j
              /\ trace[j].e = "receive" /\ trace[j].f = g /\ trace[j].c = trace[i].c

\* C24: no step of the relay's handlers (one that adds to its history, the
\* sending of an error frame included) changes the state of a socket; and a
\* chat_message frame received after an error frame was delivered on its
\* connection has its user Message persisted and typing:true delivered, has
\* the provider of its model invoked, and once answered has gone through the
\* steps of a successful frame.
C24_ErrorLeavesOpen ==
    /\ [][ Len(trace') > Len(trace) => sockets' = sockets ]_vars
    /\ [](\A f, g \in ChatFrames :
             ErrorBefore(f, g) /\ DataOf(g).model # NoModel =>
                 /\ \E i \in EventsAt(g, "persist", "user") : StoredBy(i, "user", DataOf(g))
                 /\ \E i \in EventsAt(g, "send", "typing:true") : trace[i].outcome = "delivered"
                 /\ ProviderFor[DataOf(g).model] # "none" =>
                        Invoked(g) = { ProviderFor[DataOf(g).model] }
                 /\ Resolved(g) => History(g) \in { SuccessOrder, SubSeq(SuccessOrder, 1, 6) })

\* The provider call of the first frame failed and its error frame was
\* delivered; the second frame, received afterwards on the connection, was
\* answered and its reply delivered; the connection is open.
C24_Witness ==
    \E f, g \in ChatFrames :
        /\ Rejected(f) /\ ErrorBefore(f, g)
        /\ History(g) = SuccessOrder
        /\ \A i \in EventsAt(g, "send", "message") : trace[i].outcome = "delivered"
        /\ \A c \in Conns : sockets[c] = "open"

\* C28 (as claimed): whenever the connectionStatus of the mounted hook is "Open"
\* the socket reference points to an open socket (sendMessage sends and
\* returns true); and the close
\* event of a socket that is not the current one leaves the reference to the
\* current socket as it is.
C28_OpenMeansSendable ==
    /\ [](hook.mounted /\ hook.connectionStatus = "Open" => CanSend(hook))
    /\ [][ \A id \in DOMAIN hook.socks :
              Closes(id) /\ hook.socketRef # id => hook'.socketRef = hook.socketRef ]_vars

GenerateOps == { "POST /api/flashcards/generate", "POST /api/quizzes/generate",
                 "POST /api/notes/:id/enhance" }
\* The reply has no content (null or ""), or a content that is not the JSON
\* object asked for: no choices, text that is not JSON, the value null.
EmptyReply(reply) == reply.kind = "null" \/ (reply.kind = "content" /\ reply.content = "")
MalformedReply(reply) ==
    \/ reply.kind = "nochoices"
    \/ /\ reply.kind = "content"
       /\ reply.content \in { "{flashcards:[{front:q", "Here are your flashcards", "null" }
\* The step is the second part of a generation handler, answering to reply.
Answered(op) ==
    /\ calls' # calls /\ calls' \subseteq calls
    /\ ret'.op = op /\ "reply" \in DOMAIN ret'

\* C21 (as claimed): on a reply that is empty or malformed, flashcard
\* generation answers 200 with an empty array, quiz generation answers 200
\* with a stored quiz whose question list is empty, and on an empty reply note
\* enhancement answers 200 and the note's content is what it was.
C21_GenerationDegrades ==
    [][ /\ ( /\ Answered("POST /api/flashcards/generate")
             /\ EmptyReply(ret'.reply) \/ MalformedReply(ret'.reply) )
           => ret'.http = 200 /\ ret'.value = << >>
        /\ ( /\ Answered("POST /api/quizzes/generate")
             /\ EmptyReply(ret'.reply) \/ MalformedReply(ret'.reply) )
           => /\ ret'.http = 200
              /\ ret'.value.questions = << >>
              /\ getQuiz(storage', ret'.arg) = ret'.value
        /\ ( /\ Answered("POST /api/notes/:id/enhance")
             /\ EmptyReply(ret'.reply)
             /\ MapHas(storage.notes, ret'.arg) )
           => /\ ret'.http = 200
              /\ getNote(storage', ret'.arg).content = getNote(storage, ret'.arg).content ]_vars

\* The frames sent after the n-th submission that carry its content, for a
\* conversation the store created.
SentFor(n) ==
    { k \in (chat.submitted[n].sent + 1)..Len(chat.sent) :
        /\ chat.sent[k].type = "chat_message"
        /\ chat.sent[k].content = chat.submitted[n].content
        /\ chat.sent[k].conversationId \in AssignedIds("conversations") }

\* C27 (as claimed): a non-empty message submitted while no conversation is
\* selected is, afterwards, sent as a chat_message frame for a conversation
\* that was created, and that conversation has been made the current one.
C27_FirstMessageSent ==
    \A n \in 1..MaxSubmits :
        (Len(chat.submitted) >= n /\ chat.submitted[n].conversationId = Null)
            ~> (Len(chat.submitted) >= n /\ SentFor(n) # {})

\* C29 (as claimed): once a chat_message frame was sent on the connection, a
\* typing indicator that is on is off again later, whether the provider call
\* of the frame succeeds or fails.
C29_TypingEnds ==
    (Len(chat.sent) > 0 /\ chat.isTyping) ~> ~chat.isTyping

====
